---------------------------- MODULE Spec2Model ----------------------------
(***************************************************************************)
(* A model of the lnk crate: the Shell Link (.LNK) header decoder          *)
(* (src/src/shell_link_header.rs) and the ShellLink orchestrator           *)
(* (src/src/lib.rs).                                                       *)
(*                                                                         *)
(* A buffer is a sequence of bytes (0..255).  TLC's integers are 32-bit    *)
(* signed, so a u32 or u64 of the program is held as a little-endian       *)
(* sequence of 16-bit limbs (2 limbs for u32, 4 for u64) and the           *)
(* program's shifts, additions, comparisons, divisions and bitwise         *)
(* operations are carried out on the limbs, width preserved.               *)
(***************************************************************************)
EXTENDS Integers, Sequences, FiniteSets, TLC

\* ------------------------------------------------------------------------
\* Bounds of the model (not program constants)
\* ------------------------------------------------------------------------

\* the largest number of ItemID records in an id-list that follows a header
MaxItems == 2

\* how many times ShellLink::try_from is called again on the same buffer
MaxReruns == 1

\* the last year whose leap-year status is looked at: the year of the largest
\* 64-bit tick count
MaxYear == 60056

\* ------------------------------------------------------------------------
\* Fixed-width unsigned words: little-endian sequences of 16-bit limbs
\* ------------------------------------------------------------------------

Limb == 65536

Pow2(k) == 2 ^ k

\* the limbs f[1..n] as a tuple (n is 2 for a u32, 4 for a u64)
Tup(f, n) == IF n = 2 THEN <<f[1], f[2]>> ELSE <<f[1], f[2], f[3], f[4]>>

\* `x as u32` / `x as u64` for a small non-negative x (a byte, a length, a literal)
Word(x, n) == Tup([i \in 1..n |-> IF i = 1 THEN x % Limb ELSE IF i = 2 THEN x \div Limb ELSE 0], n)

U32(x) == Word(x, 2)

U64(x) == Word(x, 4)

\* `w as u64` for a u32 w
U32ToU64(w) == <<w[1], w[2], 0, 0>>

\* bit n (0 = least significant) of a word
Bit(w, n) == (w[(n \div 16) + 1] \div Pow2(n % 16)) % 2

\* `a << k`: bits shifted out at the top are lost
Shl(a, k) ==
    Tup([i \in 1..Len(a) |->
        LET j == i - (k \div 16)
            r == k % 16
        IN  (IF j >= 1 THEN (a[j] % Pow2(16 - r)) * Pow2(r) ELSE 0)
          + (IF j >= 2 /\ r > 0 THEN a[j - 1] \div Pow2(16 - r) ELSE 0)], Len(a))

\* `a >> k`
Shr(a, k) ==
    Tup([i \in 1..Len(a) |->
        LET j == i + (k \div 16)
            r == k % 16
        IN  (IF j <= Len(a) THEN a[j] \div Pow2(r) ELSE 0)
          + (IF j + 1 <= Len(a) THEN (a[j + 1] % Pow2(r)) * Pow2(16 - r) ELSE 0)], Len(a))

RECURSIVE AddFrom(_, _, _, _)
AddFrom(a, b, i, carry) ==
    IF i > Len(a) THEN <<>>
    ELSE LET s == a[i] + b[i] + carry
         IN  <<s % Limb>> \o AddFrom(a, b, i + 1, s \div Limb)

\* `a + b` at the width of a (the sum modulo 2^width)
Add(a, b) == AddFrom(a, b, 1, 0)

\* the carry out of `a + b`: TRUE when the sum does not fit the width
RECURSIVE CarryFrom(_, _, _, _)
CarryFrom(a, b, i, carry) ==
    IF i > Len(a) THEN carry = 1
    ELSE CarryFrom(a, b, i + 1, (a[i] + b[i] + carry) \div Limb)

AddOverflows(a, b) == CarryFrom(a, b, 1, 0)

\* `a < b`, decided at the most significant limb that differs
RECURSIVE LessFrom(_, _, _)
LessFrom(a, b, i) ==
    IF i < 1 THEN FALSE
    ELSE IF a[i] # b[i] THEN a[i] < b[i]
    ELSE LessFrom(a, b, i - 1)

Less(a, b) == LessFrom(a, b, Len(a))

RECURSIVE SubFrom(_, _, _, _)
SubFrom(a, b, i, borrow) ==
    IF i > Len(a) THEN <<>>
    ELSE LET d == a[i] - b[i] - borrow
         IN  <<d % Limb>> \o SubFrom(a, b, i + 1, IF d < 0 THEN 1 ELSE 0)

\* `a - b` for a >= b
Sub(a, b) == SubFrom(a, b, 1, 0)

\* a subtraction that wraps around below zero
wrapping_sub(a, b) == Sub(a, b)

\* `a.saturating_sub(b)`
saturating_sub(a, b) == IF Less(a, b) THEN Word(0, Len(a)) ELSE Sub(a, b)

\* the highest set bit of a word, -1 for zero
TopBit(a) ==
    LET bits == {i \in 0..(16 * Len(a) - 1) : Bit(a, i) = 1}
    IN  IF bits = {} THEN -1 ELSE CHOOSE i \in bits : \A j \in bits : j <= i

\* `a * b` at the width of b: shift-and-add over the set bits of a, lowest first
RECURSIVE MulFrom(_, _, _, _)
MulFrom(a, b, i, top) ==
    IF i > top THEN Word(0, Len(b))
    ELSE IF Bit(a, i) = 1 THEN Add(Shl(b, i), MulFrom(a, b, i + 1, top))
    ELSE MulFrom(a, b, i + 1, top)

Mul(a, b) == MulFrom(a, b, 0, TopBit(a))

\* the word a with bit i set
SetBit(a, i) ==
    Tup([a EXCEPT ![(i \div 16) + 1] = @ + (IF Bit(a, i) = 1 THEN 0 ELSE Pow2(i % 16))], Len(a))

\* binary long division of a by b (b # 0).  st = [i, q, r]: the bits of a above
\* bit i have been taken in, q holds the quotient bits found and r the running
\* remainder.  One step takes in bit i.
DivStep(a, b, st) ==
    IF st.i < 0 THEN st
    ELSE LET r1 == IF Bit(a, st.i) = 1 THEN SetBit(Shl(st.r, 1), 0) ELSE Shl(st.r, 1)
         IN  IF Less(r1, b)
             THEN [i |-> st.i - 1, q |-> st.q, r |-> r1]
             ELSE [i |-> st.i - 1, q |-> SetBit(st.q, st.i), r |-> Sub(r1, b)]

\* 2^k steps of the division, composed by halves (the evaluation depth is k)
RECURSIVE DivSteps(_, _, _, _)
DivSteps(a, b, st, k) ==
    IF st.i < 0 THEN st
    ELSE IF k = 0 THEN DivStep(a, b, st)
    ELSE DivSteps(a, b, DivSteps(a, b, st, k - 1), k - 1)

\* a word of at most 64 bits takes at most 2^6 steps
DivMod(a, b) ==
    DivSteps(a, b, [i |-> TopBit(a), q |-> Word(0, Len(a)), r |-> Word(0, Len(a))], 6)

\* `a / b`
Div(a, b) == DivMod(a, b).q

\* `a % b`
Rem(a, b) == DivMod(a, b).r

\* bitwise and, or, not
AndLimb(x, y) ==
    LET RECURSIVE go(_)
        go(k) == IF k >= 16 THEN 0
                 ELSE (IF (x \div Pow2(k)) % 2 = 1 /\ (y \div Pow2(k)) % 2 = 1 THEN Pow2(k) ELSE 0)
                      + go(k + 1)
    IN  go(0)

BitAnd(a, b) == Tup([i \in 1..Len(a) |-> AndLimb(a[i], b[i])], Len(a))

BitNot(a) == Tup([i \in 1..Len(a) |-> (Limb - 1) - a[i]], Len(a))

BitOr(a, b) == Tup([i \in 1..Len(a) |-> a[i] + b[i] - AndLimb(a[i], b[i])], Len(a))

\* the value of a word that is below 2^31, as an integer
ToNat(a) == a[1] + a[2] * Limb

\* `w as i32` for the low 32 bits of a word: two's complement
AsI32(a) == IF a[2] >= 32768 THEN (a[2] - Limb) * Limb + a[1] ELSE a[2] * Limb + a[1]

\* ------------------------------------------------------------------------
\* Results, options and slices
\* ------------------------------------------------------------------------

Ok(v) == [ok |-> TRUE, val |-> v]

Err(e) == [ok |-> FALSE, err |-> e]

\* Option: None is the empty sequence, Some(v) the one-element sequence
None == <<>>

Some(v) == <<v>>

\* `&input[a..b]`: the bytes at offsets a, ..., b-1
Slice(input, a, b) == SubSeq(input, a + 1, b)

\* the least element of a non-empty set of integers (the first hit of `.iter().find`)
First(S) == CHOOSE i \in S : \A j \in S : i <= j

\* ------------------------------------------------------------------------
\* shell_link_header.rs: primitive readers
\* ------------------------------------------------------------------------

\* fn u32_from_input: input is a 4-byte slice, input[1] the byte at offset 0
u32_from_input(input) ==
    Add(Add(Add(Shl(U32(input[4]), 24),
                Shl(U32(input[3]), 16)),
            Shl(U32(input[2]), 8)),
        Shl(U32(input[1]), 0))

\* a signed reader that takes the byte at offset 0 as the most significant
i32_from_input_big_endian(input) ==
    AsI32(Shl(U32(input[1]), 24))
  + AsI32(Shl(U32(input[2]), 16))
  + AsI32(Shl(U32(input[3]), 8))
  + AsI32(Shl(U32(input[4]), 0))

\* fn i32_from_input: the same shifts and sums on i32 (an i32 is an integer here;
\* a left shift keeps the low 32 bits, so byte 3 lands on the sign bit)
i32_from_input(input) ==
    AsI32(Shl(U32(input[4]), 24))
  + AsI32(Shl(U32(input[3]), 16))
  + AsI32(Shl(U32(input[2]), 8))
  + AsI32(Shl(U32(input[1]), 0))

\* ------------------------------------------------------------------------
\* shell_link_header.rs: ShowCmd
\* ------------------------------------------------------------------------

\* `&input[a..b]`: the index check of a slice expression
slice_in_bounds(input, a, b) == a <= b /\ b <= Len(input)

\* u32_from_input stops with a panic: its `assert!(input.len() == 4)` fails, or
\* one of its three u32 additions overflows
u32_from_input_panics(input) ==
    \/ Len(input) # 4
    \/ LET t3 == Shl(U32(input[4]), 24)
           t2 == Shl(U32(input[3]), 16)
           t1 == Shl(U32(input[2]), 8)
           t0 == Shl(U32(input[1]), 0)
       IN  \/ AddOverflows(t3, t2)
           \/ AddOverflows(Add(t3, t2), t1)
           \/ AddOverflows(Add(Add(t3, t2), t1), t0)

\* a + b overflows as an i32 addition (a, b and the sum in two's complement)
i32_add_overflows(a, b) ==
    LET negative(w) == w[2] >= 32768
    IN  negative(a) = negative(b) /\ negative(Add(a, b)) # negative(a)

\* i32_from_input stops with a panic: its assertion fails or an i32 addition
\* overflows
i32_from_input_panics(input) ==
    \/ Len(input) # 4
    \/ LET t3 == Shl(U32(input[4]), 24)
           t2 == Shl(U32(input[3]), 16)
           t1 == Shl(U32(input[2]), 8)
           t0 == Shl(U32(input[1]), 0)
       IN  \/ i32_add_overflows(t3, t2)
           \/ i32_add_overflows(Add(t3, t2), t1)
           \/ i32_add_overflows(Add(Add(t3, t2), t1), t0)

SW_SHOWNORMAL == 1

SW_SHOWMAXIMIZED == 3

SW_SHOWMINNOACTIVE == 7

\* a ShowCmd conversion that looks at the low 16 bits only
ShowCmd_from_low_half(input) ==
    IF input[1] = SW_SHOWMAXIMIZED THEN "ShowMaximized"
    ELSE IF input[1] = SW_SHOWMINNOACTIVE THEN "ShowMinNoActive"
    ELSE "ShowNormal"

\* impl From<u32> for ShowCmd
ShowCmd_from(input) ==
    IF input = U32(SW_SHOWMAXIMIZED) THEN "ShowMaximized"
    ELSE IF input = U32(SW_SHOWMINNOACTIVE) THEN "ShowMinNoActive"
    ELSE "ShowNormal"

\* ------------------------------------------------------------------------
\* shell_link_header.rs: HotKeyFlags
\* ------------------------------------------------------------------------

\* const HOTKEY_MAP: (HotKey, wire byte), in the order of the source
HOTKEY_MAP == <<
    <<"Zero", 48>>, <<"One", 49>>, <<"One", 50>>, <<"Two", 50>>, <<"Three", 51>>, <<"Four", 52>>,
    <<"Five", 53>>, <<"Six", 54>>, <<"Seven", 55>>, <<"Eight", 56>>, <<"Nine", 57>>, <<"A", 65>>,
    <<"B", 66>>, <<"C", 67>>, <<"D", 68>>, <<"E", 69>>, <<"F", 70>>, <<"G", 71>>,
    <<"H", 72>>, <<"I", 73>>, <<"J", 74>>, <<"K", 75>>, <<"L", 76>>, <<"M", 77>>,
    <<"N", 78>>, <<"O", 79>>, <<"P", 80>>, <<"Q", 81>>, <<"R", 82>>, <<"S", 83>>,
    <<"T", 84>>, <<"U", 85>>, <<"V", 86>>, <<"W", 87>>, <<"X", 88>>, <<"Y", 89>>,
    <<"Z", 90>>, <<"F1", 112>>, <<"F2", 113>>, <<"F3", 114>>, <<"F4", 115>>, <<"F5", 116>>,
    <<"F6", 117>>, <<"F7", 118>>, <<"F8", 119>>, <<"F9", 120>>, <<"F10", 121>>, <<"F11", 122>>,
    <<"F12", 123>>, <<"F13", 124>>, <<"F14", 125>>, <<"F15", 126>>, <<"F16", 127>>, <<"F17", 128>>,
    <<"F18", 129>>, <<"F19", 130>>, <<"F20", 131>>, <<"F21", 132>>, <<"F22", 133>>, <<"F23", 134>>,
    <<"F24", 135>>, <<"NumLock", 144>>, <<"ScrollLock", 145>> >>

\* HotKey::try_from: the key of the first table entry with that wire byte
HotKey_try_from(input) ==
    LET hits == {i \in 1..Len(HOTKEY_MAP) : HOTKEY_MAP[i][2] = input}
    IN  IF hits = {} THEN None ELSE Some(HOTKEY_MAP[First(hits)][1])

HOTKEYF_SHIFT == 1

HOTKEYF_CONTROL == 2

HOTKEYF_ALT == 4

\* HotKeyModifier::try_from
HotKeyModifier_try_from(input) ==
    IF input = HOTKEYF_SHIFT THEN Some("Shift")
    ELSE IF input = HOTKEYF_CONTROL THEN Some("Control")
    ELSE IF input = HOTKEYF_ALT THEN Some("Alt")
    ELSE None

InvalidHotKey(b) == [tag |-> "InvalidHotKey", arg |-> b]

InvalidHotKeyModifier(b) == [tag |-> "InvalidHotKeyModifier", arg |-> b]

\* a hotkey decoder that resolves the modifier before the key
HotKeyFlags_try_from_modifier_first(input) ==
    LET hot_key          == input[1]
        hot_key_modifier == input[2]
        key              == HotKey_try_from(hot_key)
        modifier         == HotKeyModifier_try_from(hot_key_modifier)
    IN  IF hot_key = 0 /\ hot_key_modifier = 0 THEN Ok(None)
        ELSE IF modifier = None THEN Err(InvalidHotKeyModifier(hot_key_modifier))
        ELSE IF key = None THEN Err(InvalidHotKey(hot_key))
        ELSE Ok(Some([hot_key |-> key[1], modifier |-> modifier[1]]))

\* a hotkey decoder without the "both bytes zero" case
HotKeyFlags_try_from_no_zero_case(input) ==
    LET hot_key          == input[1]
        hot_key_modifier == input[2]
        key              == HotKey_try_from(hot_key)
        modifier         == HotKeyModifier_try_from(hot_key_modifier)
    IN  IF key = None THEN Err(InvalidHotKey(hot_key))
        ELSE IF modifier = None THEN Err(InvalidHotKeyModifier(hot_key_modifier))
        ELSE Ok(Some([hot_key |-> key[1], modifier |-> modifier[1]]))

\* HotKeyFlags::try_from on the 2-byte slice: Result<Option<HotKeyFlags>, _>
HotKeyFlags_try_from(input) ==
    LET hot_key          == input[1]
        hot_key_modifier == input[2]
        key              == HotKey_try_from(hot_key)
        modifier         == HotKeyModifier_try_from(hot_key_modifier)
    IN  IF hot_key = 0 /\ hot_key_modifier = 0 THEN Ok(None)
        ELSE IF key = None THEN Err(InvalidHotKey(hot_key))
        ELSE IF modifier = None THEN Err(InvalidHotKeyModifier(hot_key_modifier))
        ELSE Ok(Some([hot_key |-> key[1], modifier |-> modifier[1]]))

\* ------------------------------------------------------------------------
\* shell_link_header.rs: the bitflags! sets LinkFlags and FileAttributes
\* ------------------------------------------------------------------------

\* each flag of `bitflags! { struct LinkFlags: u32 }` with the n of its
\* declaration `const F = 0xFFFFFFFF >> n`
LINK_FLAGS == <<
    <<"HasLinkTargetIDList", 0>>, <<"HasLinkInfo", 1>>, <<"HasName", 2>>,
    <<"HasRelativePath", 3>>, <<"HasWorkingDir", 4>>, <<"HasArguments", 5>>,
    <<"HasIconLocation", 6>>, <<"IsUnicode", 7>>, <<"ForceNoLinkInfo", 8>>,
    <<"HasExpString", 9>>, <<"RunInSeparateProcess", 11>>, <<"HasDarwinID", 12>>,
    <<"RunAsUser", 13>>, <<"HasExpIcon", 14>>, <<"NoPidlAlias", 15>>,
    <<"RunWithShimLayer", 17>>, <<"ForceNoLinkTrack", 18>>, <<"EnableTargetMetadata", 19>>,
    <<"DisableLinkPathTracking", 20>>, <<"DisableKnownFolderTracking", 21>>, <<"DisableKnownFolderAlias", 22>>,
    <<"AllowLinkToLink", 23>>, <<"UnaliasOnSave", 24>>, <<"PreferEnvironmentPath", 25>>,
    <<"KeepLocalIDListForUNCTarget", 26>> >>

\* each flag of `bitflags! { struct FileAttributes: u32 }` with the n of its
\* declaration `const F = 0xFFFFFFFF >> n`
FILE_ATTRIBUTES == <<
    <<"ReadOnly", 0>>, <<"Hidden", 1>>, <<"System", 2>>,
    <<"Directory", 4>>, <<"Archive", 5>>, <<"Normal", 7>>,
    <<"Temporary", 8>>, <<"Sparse", 9>>, <<"ReparsePoint", 10>>,
    <<"Compressed", 11>>, <<"Offline", 12>>, <<"NotContentIndexed", 13>>,
    <<"Encrypted", 14>> >>

\* the value of a flag constant declared with shift n: `0xFFFFFFFF >> n`
FlagConst(n) == Shr(<<65535, 65535>>, n)

\* the value of the named flag of a table
FlagValue(table, name) ==
    FlagConst(table[CHOOSE i \in 1..Len(table) : table[i][1] = name][2])

\* bitflags `all()`: the union of the declared constants of a table
RECURSIVE FlagsAllFrom(_, _)
FlagsAllFrom(table, i) ==
    IF i > Len(table) THEN U32(0)
    ELSE BitOr(FlagConst(table[i][2]), FlagsAllFrom(table, i + 1))

LinkFlags_all == FlagsAllFrom(LINK_FLAGS, 1)

FileAttributes_all == FlagsAllFrom(FILE_ATTRIBUTES, 1)

\* bitflags `from_bits(bits)`: Some unless a bit outside all() is set
LinkFlags_from_bits(bits) ==
    IF BitAnd(bits, BitNot(LinkFlags_all)) = U32(0) THEN Some([bits |-> bits]) ELSE None

FileAttributes_from_bits(bits) ==
    IF BitAnd(bits, BitNot(FileAttributes_all)) = U32(0) THEN Some([bits |-> bits]) ELSE None

\* bitflags `self.contains(other)`: every bit of other is set in self
Flags_contains(self, other) == BitAnd(self.bits, other) = other

LinkFlags_contains(self, name) == Flags_contains(self, FlagValue(LINK_FLAGS, name))

FileAttributes_contains(self, name) == Flags_contains(self, FlagValue(FILE_ATTRIBUTES, name))

\* bitflags `is_empty()`
Flags_is_empty(self) == self.bits = U32(0)

\* ------------------------------------------------------------------------
\* shell_link_header.rs: parse_tm, the FILETIME to calendar conversion
\* ------------------------------------------------------------------------

SECOND == U64(10000000)

MINUTE == Mul(U64(60), SECOND)

HOUR == Mul(U64(60), MINUTE)

DAY == Mul(U64(24), HOUR)

START_YEAR_WINDOWS == 1601

START_YEAR_UNIX == 1900

\* a month table with the two columns of February exchanged
MONTHS_LEN_february_exchanged == <<
    <<31, 31>>, <<29, 28>>, <<31, 31>>, <<30, 30>>, <<31, 31>>, <<30, 30>>,
    <<31, 31>>, <<31, 31>>, <<30, 30>>, <<31, 31>>, <<30, 30>>, <<31, 31>> >>

\* const MONTHS_LEN: (length in a normal year, length in a leap year)
MONTHS_LEN == <<
    <<31, 31>>, <<28, 29>>, <<31, 31>>, <<30, 30>>, <<31, 31>>, <<30, 30>>,
    <<31, 31>>, <<31, 31>>, <<30, 30>>, <<31, 31>>, <<30, 30>>, <<31, 31>> >>

\* a leap-year rule without the century exception
is_year_leap_year_every_fourth(year) == (year % 4) = 0

\* fn is_year_leap_year: `year & 3` and `year & 15` are year mod 4 and mod 16
is_year_leap_year(year) ==
    (year % 4) = 0 /\ ((year % 25) # 0 \/ (year % 16) = 0)

\* (START_YEAR_WINDOWS..START_YEAR_UNIX).map(366 or 365).sum(): the range excludes 1900
days_win_unix_diff ==
    LET years == START_YEAR_WINDOWS .. (START_YEAR_UNIX - 1)
    IN  366 * Cardinality({y \in years : is_year_leap_year(y)})
      + 365 * Cardinality({y \in years : ~is_year_leap_year(y)})

nanoseconds_diff == Mul(U64(days_win_unix_diff), DAY)

\* a year loop without the `break`: it runs until the first of January is at or
\* past the input day
year_step_no_break(st, input_in_days) ==
    IF st.done THEN st
    ELSE IF ~(st.day_first_january_this_year < input_in_days)
    THEN [st EXCEPT !.done = TRUE]
    ELSE [day_first_january_this_year |->
              st.day_first_january_this_year
                  + (IF is_year_leap_year(st.current_year) THEN 366 ELSE 365),
          current_year |-> st.current_year + 1,
          done |-> FALSE]

\* one pass of the year loop `while day_first_january_this_year < input_in_days`:
\* st = [day_first_january_this_year, current_year, done], done once the loop has
\* been left (its condition failed, or the `break` was taken)
year_step(st, input_in_days) ==
    IF st.done THEN st
    ELSE IF ~(st.day_first_january_this_year < input_in_days)
    THEN [st EXCEPT !.done = TRUE]
    ELSE LET added_day == IF is_year_leap_year(st.current_year) THEN 366 ELSE 365
         IN  IF st.day_first_january_this_year + added_day > input_in_days
             THEN [st EXCEPT !.done = TRUE]
             ELSE [day_first_january_this_year |->
                       st.day_first_january_this_year + added_day,
                   current_year |-> st.current_year + 1,
                   done |-> FALSE]

\* up to 2^k passes of the year loop, composed by halves (the evaluation depth is k)
RECURSIVE year_steps(_, _, _)
year_steps(st, input_in_days, k) ==
    IF st.done THEN st
    ELSE IF k = 0 THEN year_step(st, input_in_days)
    ELSE year_steps(year_steps(st, input_in_days, k - 1), input_in_days, k - 1)

\* the year loop run to its end: a u64 tick count is below 2^17 years
year_walk(day_first_january_this_year, current_year, input_in_days) ==
    year_steps([day_first_january_this_year |-> day_first_january_this_year,
                current_year |-> current_year, done |-> FALSE],
               input_in_days, 17)

\* a month loop without the `break`: it stops once the months added reach
\* past day_in_year
RECURSIVE month_walk_no_break(_, _, _, _)
month_walk_no_break(current_month, current_day_in_year, day_in_year, current_year_is_leap_year) ==
    IF ~(current_day_in_year < day_in_year)
    THEN [current_month |-> current_month, current_day_in_year |-> current_day_in_year]
    ELSE LET new_month_len == IF current_year_is_leap_year
                              THEN MONTHS_LEN[current_month + 1][2]
                              ELSE MONTHS_LEN[current_month + 1][1]
         IN  month_walk_no_break(current_month + 1, current_day_in_year + new_month_len,
                                 day_in_year, current_year_is_leap_year)

\* the month loop: current_month counts from 0 and indexes MONTHS_LEN
RECURSIVE month_walk(_, _, _, _)
month_walk(current_month, current_day_in_year, day_in_year, current_year_is_leap_year) ==
    IF ~(current_day_in_year < day_in_year)
    THEN [current_month |-> current_month, current_day_in_year |-> current_day_in_year]
    ELSE LET new_month_len == IF current_year_is_leap_year
                              THEN MONTHS_LEN[current_month + 1][2]
                              ELSE MONTHS_LEN[current_month + 1][1]
         IN  IF current_day_in_year + new_month_len > day_in_year
             THEN [current_month |-> current_month,
                   current_day_in_year |-> current_day_in_year]
             ELSE month_walk(current_month + 1, current_day_in_year + new_month_len,
                             day_in_year, current_year_is_leap_year)

\* fn parse_tm on the 8-byte slice: Option<Tm>
parse_tm(input) ==
    IF \A i \in 1..Len(input) : input[i] = 0 THEN None
    ELSE
    LET low_bit  == u32_from_input(Slice(input, 0, 4))
        high_bit == u32_from_input(Slice(input, 4, 8))
        input_tm_nanoseconds == Add(Shl(U32ToU64(high_bit), 32), U32ToU64(low_bit))
        nanoseconds_since_1990 == saturating_sub(input_tm_nanoseconds, nanoseconds_diff)
        nanos_remaining == Rem(nanoseconds_since_1990, SECOND)
        sec_remaining   == Div(Rem(nanoseconds_since_1990, MINUTE), SECOND)
        min_remaining   == Div(Rem(nanoseconds_since_1990, HOUR), MINUTE)
        hours_remaining == Div(Rem(nanoseconds_since_1990, DAY), HOUR)
        input_in_days   == ToNat(Div(nanoseconds_since_1990, DAY))
        y == year_walk(0, START_YEAR_UNIX, input_in_days)
        day_in_year == input_in_days - y.day_first_january_this_year
        m == month_walk(0, 0, day_in_year, is_year_leap_year(y.current_year))
        day_in_month == day_in_year - m.current_day_in_year
    IN  Some([tm_nsec   |-> AsI32(nanos_remaining),
              tm_sec    |-> AsI32(sec_remaining),
              tm_min    |-> AsI32(min_remaining),
              tm_hour   |-> AsI32(hours_remaining),
              tm_mday   |-> day_in_month,
              tm_mon    |-> m.current_month + 1,
              tm_year   |-> y.current_year,
              tm_wday   |-> day_in_year % 7,
              tm_yday   |-> day_in_year,
              tm_isdst  |-> -1,
              tm_utcoff |-> 0])

\* the month loop never indexes MONTHS_LEN at or past its length
RECURSIVE month_walk_in_bounds(_, _, _, _)
month_walk_in_bounds(current_month, current_day_in_year, day_in_year, current_year_is_leap_year) ==
    IF ~(current_day_in_year < day_in_year) THEN TRUE
    ELSE IF current_month >= Len(MONTHS_LEN) THEN FALSE
    ELSE LET new_month_len == IF current_year_is_leap_year
                              THEN MONTHS_LEN[current_month + 1][2]
                              ELSE MONTHS_LEN[current_month + 1][1]
         IN  IF current_day_in_year + new_month_len > day_in_year THEN TRUE
             ELSE month_walk_in_bounds(current_month + 1, current_day_in_year + new_month_len,
                                       day_in_year, current_year_is_leap_year)

\* parse_tm does not return: its `assert!(input.len() == 8)` fails, a read
\* panics, the u64 sum of the two halves overflows, the year loop does not end,
\* `input_in_days - day_first_january_this_year` or
\* `day_in_year - current_day_in_year` underflows, or MONTHS_LEN is indexed out
\* of bounds. (The day counts are below 2^25, so the loops' own additions
\* cannot overflow a u64.)
parse_tm_panics(input) ==
    \/ Len(input) # 8
    \/ /\ ~(\A i \in 1..Len(input) : input[i] = 0)
       /\ \/ u32_from_input_panics(Slice(input, 0, 4))
          \/ u32_from_input_panics(Slice(input, 4, 8))
          \/ LET low_bit  == u32_from_input(Slice(input, 0, 4))
                 high_bit == u32_from_input(Slice(input, 4, 8))
                 input_tm_nanoseconds == Add(Shl(U32ToU64(high_bit), 32), U32ToU64(low_bit))
                 nanoseconds_since_1990 == saturating_sub(input_tm_nanoseconds, nanoseconds_diff)
                 input_in_days == ToNat(Div(nanoseconds_since_1990, DAY))
                 y == year_walk(0, START_YEAR_UNIX, input_in_days)
                 day_in_year == input_in_days - y.day_first_january_this_year
                 leap == is_year_leap_year(y.current_year)
                 m == month_walk(0, 0, day_in_year, leap)
             IN  \/ AddOverflows(Shl(U32ToU64(high_bit), 32), U32ToU64(low_bit))
                 \/ ~y.done
                 \/ y.day_first_january_this_year > input_in_days
                 \/ ~month_walk_in_bounds(0, 0, day_in_year, leap)
                 \/ m.current_day_in_year > day_in_year

\* ------------------------------------------------------------------------
\* shell_link_header.rs: ShellLinkHeader::try_from
\* ------------------------------------------------------------------------

HEADER_LEN == 76

\* the CLSID with its last word written most-significant byte first
LINK_CLSID_swapped == << <<5121, 2>>, <<0, 0>>, <<192, 0>>, <<70, 0>> >>

\* const LINK_CLSID: [u32; 4] = [0x00021401, 0x00000000, 0x000000C0, 0x46000000]
LINK_CLSID == << <<5121, 2>>, <<0, 0>>, <<192, 0>>, <<0, 17920>> >>

InvalidHeaderLength(n) == [tag |-> "InvalidHeaderLength", arg |-> n]

CorruptHeaderLength(w) == [tag |-> "CorruptHeaderLength", arg |-> w]

CorruptHeaderClsId(c) == [tag |-> "CorruptHeaderClsId", arg |-> c]

InvalidLinkFlags(w) == [tag |-> "InvalidLinkFlags", arg |-> w]

InvalidFileAttributes(w) == [tag |-> "InvalidFileAttributes", arg |-> w]

InvalidHotKeyFlags(e) == [tag |-> "InvalidHotKeyFlags", arg |-> e]

\* a field decoder that reads the creation time where the access time lies, and
\* the access time where the creation time lies
header_fields_times_swapped(input) ==
    LET link_flags_bytes      == u32_from_input(Slice(input, 20, 24))
        link_flags            == LinkFlags_from_bits(link_flags_bytes)
        file_attributes_bytes == u32_from_input(Slice(input, 24, 28))
        file_attributes       == FileAttributes_from_bits(file_attributes_bytes)
        hot_key_flags         == HotKeyFlags_try_from(Slice(input, 64, 66))
    IN  IF link_flags = None THEN Err(InvalidLinkFlags(link_flags_bytes))
        ELSE IF file_attributes = None THEN Err(InvalidFileAttributes(file_attributes_bytes))
        ELSE IF ~hot_key_flags.ok THEN Err(InvalidHotKeyFlags(hot_key_flags.err))
        ELSE Ok([link_flags      |-> link_flags[1],
                 file_attributes |-> file_attributes[1],
                 creation_time   |-> parse_tm(Slice(input, 36, 44)),
                 access_time     |-> parse_tm(Slice(input, 28, 36)),
                 write_time      |-> parse_tm(Slice(input, 44, 52)),
                 file_size       |-> u32_from_input(Slice(input, 52, 56)),
                 icon_index      |-> i32_from_input(Slice(input, 56, 60)),
                 show_cmd        |-> ShowCmd_from(u32_from_input(Slice(input, 60, 64))),
                 hot_key_flags   |-> hot_key_flags.val])

\* ShellLinkHeader::try_from after the CLSID check: LinkFlags, FileAttributes,
\* the three FILETIMEs, FileSize, IconIndex, ShowCommand and the hotkey
header_fields(input) ==
    LET link_flags_bytes      == u32_from_input(Slice(input, 20, 24))
        link_flags            == LinkFlags_from_bits(link_flags_bytes)
        file_attributes_bytes == u32_from_input(Slice(input, 24, 28))
        file_attributes       == FileAttributes_from_bits(file_attributes_bytes)
        hot_key_flags         == HotKeyFlags_try_from(Slice(input, 64, 66))
    IN  IF link_flags = None THEN Err(InvalidLinkFlags(link_flags_bytes))
        ELSE IF file_attributes = None THEN Err(InvalidFileAttributes(file_attributes_bytes))
        ELSE IF ~hot_key_flags.ok THEN Err(InvalidHotKeyFlags(hot_key_flags.err))
        ELSE Ok([link_flags      |-> link_flags[1],
                 file_attributes |-> file_attributes[1],
                 creation_time   |-> parse_tm(Slice(input, 28, 36)),
                 access_time     |-> parse_tm(Slice(input, 36, 44)),
                 write_time      |-> parse_tm(Slice(input, 44, 52)),
                 file_size       |-> u32_from_input(Slice(input, 52, 56)),
                 icon_index      |-> i32_from_input(Slice(input, 56, 60)),
                 show_cmd        |-> ShowCmd_from(u32_from_input(Slice(input, 60, 64))),
                 hot_key_flags   |-> hot_key_flags.val])

\* ShellLinkHeader::try_from from the CLSID check on (input is the 76-byte slice)
header_clsid(input) ==
    LET link_clsid == << u32_from_input(Slice(input, 4, 8)),
                         u32_from_input(Slice(input, 8, 12)),
                         u32_from_input(Slice(input, 12, 16)),
                         u32_from_input(Slice(input, 16, 20)) >>
    IN  IF link_clsid # LINK_CLSID THEN Err(CorruptHeaderClsId(link_clsid))
        ELSE header_fields(input)

\* a HeaderSize check that compares the low 16 bits only
header_size_low_half(input) ==
    LET header_len == u32_from_input(Slice(input, 0, 4))
    IN  IF header_len[1] # HEADER_LEN THEN Err(CorruptHeaderLength(header_len))
        ELSE header_clsid(input)

\* a HeaderSize check that also wants the ten reserved bytes to be zero
header_size_reserved_zero(input) ==
    LET header_len == u32_from_input(Slice(input, 0, 4))
    IN  IF header_len # U32(HEADER_LEN) \/ (\E i \in 67..76 : input[i] # 0)
        THEN Err(CorruptHeaderLength(header_len))
        ELSE header_clsid(input)

\* ShellLinkHeader::try_from from the HeaderSize check on (input is the 76-byte slice)
header_size(input) ==
    LET header_len == u32_from_input(Slice(input, 0, 4))
    IN  IF header_len # U32(HEADER_LEN) THEN Err(CorruptHeaderLength(header_len))
        ELSE header_clsid(input)

\* a decoder that looks at HeaderSize before it looks at the length
ShellLinkHeader_try_from_size_first(input) ==
    IF Len(input) >= 4 /\ u32_from_input(Slice(input, 0, 4)) # U32(HEADER_LEN)
    THEN Err(CorruptHeaderLength(u32_from_input(Slice(input, 0, 4))))
    ELSE IF Len(input) < HEADER_LEN THEN Err(InvalidHeaderLength(Len(input)))
    ELSE header_size(Slice(input, 0, HEADER_LEN))

\* ShellLinkHeader::try_from: Result<ShellLinkHeader, ShellLinkHeaderParseError>
ShellLinkHeader_try_from(input) ==
    IF Len(input) < HEADER_LEN THEN Err(InvalidHeaderLength(Len(input)))
    ELSE header_size(Slice(input, 0, HEADER_LEN))

\* HotKeyFlags::try_from panics: its `assert!(input.len() == 2)` fails
HotKeyFlags_try_from_panics(input) == Len(input) # 2

\* ShellLinkHeader::try_from panics on the way to its return: a slice index is
\* out of bounds, `assert!(input.len() == HEADER_LEN)` fails, or a callee that
\* is reached panics. The statements after an early return are not reached.
ShellLinkHeader_try_from_panics(input) ==
    /\ ~(Len(input) < HEADER_LEN)
    /\ \/ ~slice_in_bounds(input, 0, HEADER_LEN)
       \/ LET h == Slice(input, 0, HEADER_LEN)
              reads_in_bounds(S) == \A r \in S : slice_in_bounds(h, r[1], r[2])
          IN  \/ Len(h) # HEADER_LEN
              \/ ~reads_in_bounds({<<0, 4>>})
              \/ u32_from_input_panics(Slice(h, 0, 4))
              \/ /\ u32_from_input(Slice(h, 0, 4)) = U32(HEADER_LEN)
                 /\ \/ ~reads_in_bounds({<<4, 8>>, <<8, 12>>, <<12, 16>>, <<16, 20>>})
                    \/ \E r \in {<<4, 8>>, <<8, 12>>, <<12, 16>>, <<16, 20>>} :
                          u32_from_input_panics(Slice(h, r[1], r[2]))
                    \/ /\ << u32_from_input(Slice(h, 4, 8)), u32_from_input(Slice(h, 8, 12)),
                             u32_from_input(Slice(h, 12, 16)), u32_from_input(Slice(h, 16, 20)) >>
                          = LINK_CLSID
                       /\ \/ ~reads_in_bounds({<<20, 24>>, <<24, 28>>})
                          \/ u32_from_input_panics(Slice(h, 20, 24))
                          \/ u32_from_input_panics(Slice(h, 24, 28))
                          \/ /\ LinkFlags_from_bits(u32_from_input(Slice(h, 20, 24))) # None
                             /\ FileAttributes_from_bits(u32_from_input(Slice(h, 24, 28))) # None
                             /\ \/ ~reads_in_bounds({<<28, 36>>, <<36, 44>>, <<44, 52>>, <<52, 56>>,
                                                     <<56, 60>>, <<60, 64>>, <<64, 66>>})
                                \/ parse_tm_panics(Slice(h, 28, 36))
                                \/ parse_tm_panics(Slice(h, 36, 44))
                                \/ parse_tm_panics(Slice(h, 44, 52))
                                \/ u32_from_input_panics(Slice(h, 52, 56))
                                \/ i32_from_input_panics(Slice(h, 56, 60))
                                \/ u32_from_input_panics(Slice(h, 60, 64))
                                \/ HotKeyFlags_try_from_panics(Slice(h, 64, 66))

\* ------------------------------------------------------------------------
\* lib.rs: the sub-decoders the orchestrator calls
\* ------------------------------------------------------------------------

Unimplemented == [tag |-> "Unimplemented"]

\* LinkTargetIdList::try_from: the body is `Err(Unimplemented)` for every input
LinkTargetIdList_try_from(input) == Err(Unimplemented)

\* LinkInfo::try_from: the body is `Err(Unimplemented)` for every input
LinkInfo_try_from(input) == Err(Unimplemented)

\* impl From<ShellLinkHeaderParseError> for ShellLinkParseError
HeaderParseError(e) == [tag |-> "HeaderParseError", arg |-> e]

\* an id-list error reported under the header's variant
IdListParseError_as_header(e) == [tag |-> "HeaderParseError", arg |-> e]

\* impl From<LinkTargetIdListParseError> for ShellLinkParseError
IdListParseError(e) == [tag |-> "IdListParseError", arg |-> e]

\* ------------------------------------------------------------------------
\* Lookup tables: enumerations and their wire codes
\* ------------------------------------------------------------------------

\* Option::unwrap panics on None and yields the payload otherwise
unwrap_panics(opt) == opt = None

unwrap(opt) == opt[1]

\* the variants of `pub enum HotKey`
HotKey == {
    "Zero", "One", "Two", "Three", "Four", "Five", "Six", "Seven",
    "Eight", "Nine", "A", "B", "C", "D", "E", "F", "G", "H", "I", "J",
    "K", "L", "M", "N", "O", "P", "Q", "R", "S", "T", "U", "V", "W",
    "X", "Y", "Z", "F1", "F2", "F3", "F4", "F5", "F6", "F7", "F8",
    "F9", "F10", "F11", "F12", "F13", "F14", "F15", "F16", "F17",
    "F18", "F19", "F20", "F21", "F22", "F23", "F24", "NumLock",
    "ScrollLock" }

\* the variants of `pub enum HotKeyModifier`
HotKeyModifier == {
    "Shift", "Control", "Alt" }

\* the variants of `pub enum DriveType`
DriveType == {
    "Unknown", "NoRootDir", "Removable", "Fixed", "Remote", "CdRom",
    "RamDisk" }

\* the variants of `pub enum NetworkProviderType`
NetworkProviderType == {
    "Avid", "Docuspace", "Mangosoft", "Sernet", "Riverfront1",
    "Riverfront2", "Decorb", "Protstor", "FjRedir", "Distinct",
    "Twins", "Rdr2sample", "Csc", "_3in1", "Extendnet", "Stac",
    "Foxbat", "Yahoo", "Exifs", "Dav", "Knoware", "ObjectDire",
    "Masfax", "HobNfs", "Shiva", "Ibmal", "Lock", "Termsrv", "Srt",
    "Quincy", "Openafs", "Avid1", "Dfs", "Kwnp", "Zenworks",
    "Driveonweb", "Vmware", "Rsfx", "Mfiles", "MsNfs", "Google" }

\* the variants of `pub enum FontFamily`
FontFamily == {
    "DontCare", "Roman", "Swiss", "Modern", "Script", "Decorative" }

DRIVE_UNKNOWN == 0

DRIVE_NO_ROOT_DIR == 1

DRIVE_REMOVABLE == 2

DRIVE_FIXED == 3

DRIVE_REMOTE == 4

DRIVE_CDROM == 5

DRIVE_RAMDISK == 6

\* const DRIVE_TYPE_MAP: (DriveType, wire code), in the order of the source
DRIVE_TYPE_MAP == <<
    <<"Unknown", U32(DRIVE_UNKNOWN)>>,
    <<"NoRootDir", U32(DRIVE_NO_ROOT_DIR)>>,
    <<"Removable", U32(DRIVE_REMOVABLE)>>,
    <<"Fixed", U32(DRIVE_FIXED)>>,
    <<"Remote", U32(DRIVE_REMOTE)>>,
    <<"CdRom", U32(DRIVE_CDROM)>>,
    <<"RamDisk", U32(DRIVE_RAMDISK)>> >>

WNNC_NET_AVID == 1703936

WNNC_NET_DOCUSPACE == 1769472

WNNC_NET_MANGOSOFT == 1835008

WNNC_NET_SERNET == 1900544

WNNC_NET_RIVERFRONT1 == 1966080

WNNC_NET_RIVERFRONT2 == 2031616

WNNC_NET_DECORB == 2097152

WNNC_NET_PROTSTOR == 2162688

WNNC_NET_FJ_REDIR == 2228224

WNNC_NET_DISTINCT == 2293760

WNNC_NET_TWINS == 2359296

WNNC_NET_RDR2SAMPLE == 2424832

WNNC_NET_CSC == 2490368

WNNC_NET_3IN1 == 2555904

WNNC_NET_EXTENDNET == 2686976

WNNC_NET_STAC == 2752512

WNNC_NET_FOXBAT == 2818048

WNNC_NET_YAHOO == 2883584

WNNC_NET_EXIFS == 2949120

WNNC_NET_DAV == 3014656

WNNC_NET_KNOWARE == 3080192

WNNC_NET_OBJECT_DIRE == 3145728

WNNC_NET_MASFAX == 3211264

WNNC_NET_HOB_NFS == 3276800

WNNC_NET_SHIVA == 3342336

WNNC_NET_IBMAL == 3407872

WNNC_NET_LOCK == 3473408

WNNC_NET_TERMSRV == 3538944

WNNC_NET_SRT == 3604480

WNNC_NET_QUINCY == 3670016

WNNC_NET_OPENAFS == 3735552

WNNC_NET_AVID1 == 3801088

WNNC_NET_DFS == 3866624

WNNC_NET_KWNP == 3932160

WNNC_NET_ZENWORKS == 3997696

WNNC_NET_DRIVEONWEB == 4063232

WNNC_NET_VMWARE == 4128768

WNNC_NET_RSFX == 4194304

WNNC_NET_MFILES == 4259840

WNNC_NET_MS_NFS == 4325376

WNNC_NET_GOOGLE == 4390912

\* const NETWORK_PROVIDER_TYPE_MAP: (NetworkProviderType, wire code), in the order of the source
NETWORK_PROVIDER_TYPE_MAP == <<
    <<"Avid", U32(WNNC_NET_AVID)>>,
    <<"Docuspace", U32(WNNC_NET_DOCUSPACE)>>,
    <<"Mangosoft", U32(WNNC_NET_MANGOSOFT)>>,
    <<"Sernet", U32(WNNC_NET_SERNET)>>,
    <<"Riverfront1", U32(WNNC_NET_RIVERFRONT1)>>,
    <<"Riverfront2", U32(WNNC_NET_RIVERFRONT2)>>,
    <<"Decorb", U32(WNNC_NET_DECORB)>>,
    <<"Protstor", U32(WNNC_NET_PROTSTOR)>>,
    <<"FjRedir", U32(WNNC_NET_FJ_REDIR)>>,
    <<"Distinct", U32(WNNC_NET_DISTINCT)>>,
    <<"Twins", U32(WNNC_NET_TWINS)>>,
    <<"Rdr2sample", U32(WNNC_NET_RDR2SAMPLE)>>,
    <<"Csc", U32(WNNC_NET_CSC)>>,
    <<"_3in1", U32(WNNC_NET_3IN1)>>,
    <<"Extendnet", U32(WNNC_NET_EXTENDNET)>>,
    <<"Stac", U32(WNNC_NET_STAC)>>,
    <<"Foxbat", U32(WNNC_NET_FOXBAT)>>,
    <<"Yahoo", U32(WNNC_NET_YAHOO)>>,
    <<"Exifs", U32(WNNC_NET_EXIFS)>>,
    <<"Dav", U32(WNNC_NET_DAV)>>,
    <<"Knoware", U32(WNNC_NET_KNOWARE)>>,
    <<"ObjectDire", U32(WNNC_NET_OBJECT_DIRE)>>,
    <<"Masfax", U32(WNNC_NET_MASFAX)>>,
    <<"HobNfs", U32(WNNC_NET_HOB_NFS)>>,
    <<"Shiva", U32(WNNC_NET_SHIVA)>>,
    <<"Ibmal", U32(WNNC_NET_IBMAL)>>,
    <<"Lock", U32(WNNC_NET_LOCK)>>,
    <<"Termsrv", U32(WNNC_NET_TERMSRV)>>,
    <<"Srt", U32(WNNC_NET_SRT)>>,
    <<"Quincy", U32(WNNC_NET_QUINCY)>>,
    <<"Openafs", U32(WNNC_NET_OPENAFS)>>,
    <<"Avid1", U32(WNNC_NET_AVID1)>>,
    <<"Dfs", U32(WNNC_NET_DFS)>>,
    <<"Kwnp", U32(WNNC_NET_KWNP)>>,
    <<"Zenworks", U32(WNNC_NET_ZENWORKS)>>,
    <<"Driveonweb", U32(WNNC_NET_DRIVEONWEB)>>,
    <<"Vmware", U32(WNNC_NET_VMWARE)>>,
    <<"Rsfx", U32(WNNC_NET_RSFX)>>,
    <<"Mfiles", U32(WNNC_NET_MFILES)>>,
    <<"MsNfs", U32(WNNC_NET_MS_NFS)>>,
    <<"Google", U32(WNNC_NET_GOOGLE)>> >>

FF_DONTCARE == 0

FF_ROMAN == 16

FF_SWISS == 32

FF_MODERN == 48

FF_SCRIPT == 64

FF_DECORATIVE == 80

\* a font family table in which Swiss carries the code of Roman
FONT_FAMILY_MAP_shared_code == <<
    <<"DontCare", FF_DONTCARE>>,
    <<"Roman", FF_ROMAN>>,
    <<"Swiss", FF_ROMAN>>,
    <<"Modern", FF_MODERN>>,
    <<"Script", FF_SCRIPT>>,
    <<"Decorative", FF_DECORATIVE>> >>

\* const FONT_FAMILY_MAP: (FontFamily, wire code), in the order of the source
FONT_FAMILY_MAP == <<
    <<"DontCare", FF_DONTCARE>>,
    <<"Roman", FF_ROMAN>>,
    <<"Swiss", FF_SWISS>>,
    <<"Modern", FF_MODERN>>,
    <<"Script", FF_SCRIPT>>,
    <<"Decorative", FF_DECORATIVE>> >>

\* `MAP.iter().find(|x| x.1 == input).and_then(|out| Some(out.0))`
find_by_code(map, input) ==
    LET hits == {i \in 1..Len(map) : map[i][2] = input}
    IN  IF hits = {} THEN None ELSE Some(map[First(hits)][1])

\* `MAP.iter().find(|x| x.0 == input).and_then(|out| Some(out.1))`
find_by_variant(map, input) ==
    LET hits == {i \in 1..Len(map) : map[i][1] = input}
    IN  IF hits = {} THEN None ELSE Some(map[First(hits)][2])

\* impl From<HotKey> for u8: the lookup whose result is unwrapped
u8_from_HotKey_find(input) == find_by_variant(HOTKEY_MAP, input)

u8_from_HotKey_panics(input) == unwrap_panics(u8_from_HotKey_find(input))

u8_from_HotKey(input) == unwrap(u8_from_HotKey_find(input))

\* impl From<HotKeyModifier> for u8
u8_from_HotKeyModifier(input) ==
    CASE input = "Shift"   -> HOTKEYF_SHIFT
      [] input = "Control" -> HOTKEYF_CONTROL
      [] input = "Alt"     -> HOTKEYF_ALT

\* a drive type decoder that looks at the low 16 bits of the code only
DriveType_try_from_low_half(input) ==
    find_by_code(DRIVE_TYPE_MAP, <<input[1], 0>>)

\* DriveType::try_from
DriveType_try_from(input) == find_by_code(DRIVE_TYPE_MAP, input)

\* impl From<DriveType> for u32: the lookup whose result is unwrapped
u32_from_DriveType_find(input) == find_by_variant(DRIVE_TYPE_MAP, input)

u32_from_DriveType_panics(input) ==
    unwrap_panics(u32_from_DriveType_find(input))

u32_from_DriveType(input) == unwrap(u32_from_DriveType_find(input))

\* NetworkProviderType::try_from
NetworkProviderType_try_from(input) ==
    find_by_code(NETWORK_PROVIDER_TYPE_MAP, input)

\* impl From<NetworkProviderType> for u32: the lookup whose result is
\* unwrapped
u32_from_NetworkProviderType_find(input) ==
    find_by_variant(NETWORK_PROVIDER_TYPE_MAP, input)

u32_from_NetworkProviderType_panics(input) ==
    unwrap_panics(u32_from_NetworkProviderType_find(input))

u32_from_NetworkProviderType(input) ==
    unwrap(u32_from_NetworkProviderType_find(input))

\* FontFamily::try_from
FontFamily_try_from(input) == find_by_code(FONT_FAMILY_MAP, input)

\* impl From<FontFamily> for u16: the lookup whose result is unwrapped
u16_from_FontFamily_find(input) == find_by_variant(FONT_FAMILY_MAP, input)

u16_from_FontFamily_panics(input) ==
    unwrap_panics(u16_from_FontFamily_find(input))

u16_from_FontFamily(input) == unwrap(u16_from_FontFamily_find(input))


\* ------------------------------------------------------------------------
\* The buffers handed to the decoder
\* ------------------------------------------------------------------------

Zeros(n) == [i \in 1..n |-> 0]

\* the byte at index i (0..3) of the little-endian u32 whose set bits are S
RECURSIVE ByteOfBits(_, _, _)
ByteOfBits(S, i, k) ==
    IF k > 7 THEN 0
    ELSE (IF (8 * i + k) \in S THEN Pow2(k) ELSE 0) + ByteOfBits(S, i, k + 1)

\* the 4 wire bytes of the u32 whose set bits are S
BitsWord(S) == <<ByteOfBits(S, 0, 0), ByteOfBits(S, 1, 0), ByteOfBits(S, 2, 0), ByteOfBits(S, 3, 0)>>

\* a 76-byte header laid out as ShellLinkHeader::try_from reads it
MkHeader(hs, cl, lf, fa, ct, at, wt, fs, ii, sc, hk, rs) ==
    hs \o cl \o lf \o fa \o ct \o at \o wt \o fs \o ii \o sc \o hk \o rs

GoodSize == <<76, 0, 0, 0>>

\* the wire bytes of 00021401-0000-0000-C000-000000000046
GoodClsid == <<1, 20, 2, 0, 0, 0, 0, 0, 192, 0, 0, 0, 0, 0, 0, 70>>

\* a header that differs from the all-zero well-formed one in the given fields
HeaderWith(hs, cl, lf, fa, hk) ==
    MkHeader(hs, cl, lf, fa, Zeros(8), Zeros(8), Zeros(8),
             Zeros(4), Zeros(4), Zeros(4), hk, Zeros(10))

HeaderSizeSamples ==
    { GoodSize, <<0, 0, 0, 0>>, <<77, 0, 0, 0>>, <<75, 0, 0, 0>>, <<76, 1, 0, 0>>,
      <<76, 0, 1, 0>>, <<76, 0, 0, 128>>, <<0, 0, 0, 76>>, <<255, 255, 255, 255>> }

\* the good CLSID and every one-byte change of it (incremented, and complemented)
ClsidSamples ==
    {GoodClsid, Zeros(16)}
    \cup {[GoodClsid EXCEPT ![i] = (@ + 1) % 256] : i \in 1..16}
    \cup {[GoodClsid EXCEPT ![i] = 255 - @] : i \in 1..16}

\* bit sets of a flag word: none, each single bit, and some combinations
FlagBitSets ==
    {{}} \cup {{n} : n \in 0..31}
    \cup {0..31, 0..30, 1..31, 0..26, {0, 1}, {0, 7}, {1, 2, 7}, {0, 10}, {3, 6}}

FlagWordSamples == {BitsWord(S) : S \in FlagBitSets}

\* FILETIMEs: zero, one tick, 2^32 ticks (low half zero), the last tick before
\* 1900-01-01, 1900-01-01, 1970-01-01, a day in 2018
FileTimeSamples ==
    { Zeros(8), <<1, 0, 0, 0, 0, 0, 0, 0>>, <<0, 0, 0, 0, 1, 0, 0, 0>>,
      <<255, 63, 224, 253, 59, 55, 79, 1>>, <<0, 64, 224, 253, 59, 55, 79, 1>>,
      <<0, 128, 62, 213, 222, 177, 157, 1>>, <<135, 45, 237, 202, 98, 188, 211, 1>> }

ShowCommandSamples ==
    { <<0, 0, 0, 0>>, <<1, 0, 0, 0>>, <<3, 0, 0, 0>>, <<7, 0, 0, 0>>, <<3, 1, 0, 0>>,
      <<2, 0, 0, 0>>, <<3, 0, 1, 0>>, <<7, 0, 0, 128>>, <<0, 0, 0, 3>>, <<255, 255, 255, 255>> }

HotKeySamples ==
    {<<0, 0>>, <<65, 2>>, <<50, 1>>, <<145, 4>>, <<65, 0>>, <<0, 1>>, <<65, 3>>, <<47, 2>>, <<47, 0>>}

\* payloads of ItemID records
ItemSamples == {<<170, 187, 204, 221>>, <<1>>}

\* the sequences of at most n payloads
RECURSIVE ItemLists(_)
ItemLists(n) ==
    IF n = 0 THEN {<<>>}
    ELSE LET shorter == ItemLists(n - 1)
         IN  shorter \cup {Append(l, p) : l \in {x \in shorter : Len(x) = n - 1}, p \in ItemSamples}

\* a 2-byte little-endian u16
LE16(n) == <<n % 256, n \div 256>>

\* the ItemID records of a payload list, then the zero-size terminator
RECURSIVE ItemStream(_)
ItemStream(l) ==
    IF l = <<>> THEN LE16(0)
    ELSE LE16(Len(Head(l)) + 2) \o Head(l) \o ItemStream(Tail(l))

\* a LinkTargetIDList on the wire: IDListSize, then the IDList
IdListWire(l) == LE16(Len(ItemStream(l))) \o ItemStream(l)

\* what may follow the 76 header bytes: nothing, an id-list, or a bare record stream
Tails ==
    {<<>>} \cup {IdListWire(l) : l \in ItemLists(MaxItems)}
    \cup {ItemStream(l) : l \in ItemLists(1)}

\* headers cut short: every length below 76 of a good header, of a header with
\* every field wrong, and of 0xFF bytes
ShortInputs ==
    { SubSeq(h, 1, n) :
        h \in { HeaderWith(GoodSize, GoodClsid, Zeros(4), Zeros(4), <<0, 0>>),
                HeaderWith(<<77, 0, 0, 0>>, Zeros(16), BitsWord({10}), BitsWord({3}), <<47, 3>>),
                [i \in 1..HEADER_LEN |-> 255] },
        n \in 0..(HEADER_LEN - 1) }

\* HeaderSize and CLSID varied, alone and together with other wrong fields
FramingInputs ==
    { HeaderWith(hs, cl, lf, Zeros(4), <<0, 0>>) :
        hs \in HeaderSizeSamples, cl \in {GoodClsid, Zeros(16)}, lf \in {Zeros(4), BitsWord({10})} }
    \cup { HeaderWith(GoodSize, cl, Zeros(4), fa, hk) :
        cl \in ClsidSamples, fa \in {Zeros(4), BitsWord({3})}, hk \in {<<0, 0>>, <<47, 3>>} }

\* LinkFlags varied, followed by each tail; FileAttributes varied
FlagInputs ==
    { HeaderWith(GoodSize, GoodClsid, lf, Zeros(4), <<0, 0>>) \o t :
        lf \in FlagWordSamples, t \in Tails }
    \cup { HeaderWith(GoodSize, GoodClsid, lf, fa, hk) :
        lf \in {Zeros(4), BitsWord({1}), BitsWord(0..31)}, fa \in FlagWordSamples,
        hk \in {<<0, 0>>, <<65, 2>>, <<47, 2>>} }

\* the remaining fields varied: FILETIMEs, FileSize, IconIndex, ShowCommand, HotKey,
\* the reserved bytes
FieldInputs ==
    { MkHeader(GoodSize, GoodClsid, Zeros(4), Zeros(4), ct, Zeros(8), wt,
               <<1, 2, 3, 4>>, ii, sc, hk, rs) :
        ct \in FileTimeSamples, wt \in {Zeros(8), <<0, 128, 62, 213, 222, 177, 157, 1>>},
        ii \in {Zeros(4), <<255, 255, 255, 255>>}, sc \in {Zeros(4), <<3, 0, 0, 0>>, <<7, 0, 0, 0>>},
        hk \in {<<0, 0>>, <<65, 2>>}, rs \in {Zeros(10)} }
    \cup { MkHeader(GoodSize, GoodClsid, Zeros(4), Zeros(4), ct, Zeros(8), Zeros(8),
               Zeros(4), Zeros(4), sc, hk, Zeros(10)) :
        ct \in {Zeros(8), <<135, 45, 237, 202, 98, 188, 211, 1>>}, sc \in ShowCommandSamples,
        hk \in {<<0, 0>>, <<65, 2>>} }
    \cup { MkHeader(GoodSize, GoodClsid, Zeros(4), Zeros(4), Zeros(8), at, Zeros(8),
               Zeros(4), Zeros(4), sc, hk, rs) :
        at \in FileTimeSamples, sc \in {Zeros(4), <<3, 0, 0, 0>>}, hk \in HotKeySamples,
        rs \in {Zeros(10), [i \in 1..10 |-> 255]} }

\* FILETIMEs at the ends of the range: the largest tick count, the largest with
\* the top bit clear, and the last tick of a leap year (2000-12-31)
ExtremeFileTimes ==
    { [i \in 1..8 |-> 255], <<255, 255, 255, 255, 255, 255, 255, 127>>,
      <<255, 191, 157, 200, 133, 115, 192, 1>> }

ExtremeInputs ==
    { MkHeader(GoodSize, GoodClsid, Zeros(4), Zeros(4), ct, Zeros(8), Zeros(8),
               Zeros(4), Zeros(4), Zeros(4), <<0, 0>>, Zeros(10)) : ct \in ExtremeFileTimes }
    \cup { MkHeader(GoodSize, GoodClsid, Zeros(4), Zeros(4), Zeros(8), Zeros(8),
               <<255, 191, 157, 200, 133, 115, 192, 1>>,
               <<255, 255, 255, 255>>, <<255, 255, 255, 127>>, Zeros(4), <<0, 0>>, Zeros(10)),
            MkHeader(GoodSize, GoodClsid, Zeros(4), Zeros(4), Zeros(8), Zeros(8), Zeros(8),
               Zeros(4), <<0, 0, 0, 128>>, Zeros(4), <<0, 0>>, Zeros(10)) }

\* the two HotKey bytes varied: every key byte with no modifier and with Control,
\* every modifier byte with no key, with resolving keys and with a key that does
\* not resolve
HotKeyInputs ==
    { HeaderWith(GoodSize, GoodClsid, Zeros(4), Zeros(4), <<k, m>>) :
        k \in 0..255, m \in {0, 2} }
    \cup { HeaderWith(GoodSize, GoodClsid, Zeros(4), Zeros(4), <<k, m>>) :
        k \in {0, 50, 65, 47}, m \in 0..255 }

\* a header with no flag set, followed by an extra-data section: a terminal
\* block alone (a size field below 4), or one SpecialFolderDataBlock (size
\* 0x10, signature 0xA0000005, folder 0x25, offset 0) and the terminal block
ExtraDataInputs ==
    { HeaderWith(GoodSize, GoodClsid, Zeros(4), Zeros(4), <<0, 0>>) \o t :
        t \in { <<3, 0, 0, 0>>,
                <<16, 0, 0, 0, 5, 0, 0, 160, 37, 0, 0, 0, 0, 0, 0, 0>>
                    \o Zeros(4) } }

\* the reserved bytes and the bytes after the header varied, under a header
\* that decodes and under headers that fail at the CLSID and at the hotkey
ReservedInputs ==
    { MkHeader(GoodSize, cl, Zeros(4), Zeros(4), <<135, 45, 237, 202, 98, 188, 211, 1>>,
               Zeros(8), Zeros(8), <<1, 2, 3, 4>>, Zeros(4), <<3, 0, 0, 0>>, hk, rs) \o t :
        cl \in {GoodClsid, Zeros(16)}, hk \in {<<65, 2>>, <<47, 2>>},
        rs \in {[i \in 1..10 |-> 255], [i \in 1..10 |-> i], [i \in 1..10 |-> IF i = 10 THEN 1 ELSE 0]},
        t \in {<<>>, <<255, 255, 255, 255>>} }

\* FILETIMEs on both sides of year and month ends, in leap years, in normal
\* years and in century years: 1900-12-31 (last tick), 1901-01-01, 1903-02-28,
\* 1903-03-01, 1904-02-29, 1904-03-01, 1999-12-31 (last tick), 2000-02-29,
\* 2000-03-01, 2100-02-28, 2100-03-01, 2100-12-31 (last tick), 2019-01-31,
\* 2019-04-30, 2019-07-01, 2020-12-31 and 2400-02-29
CalendarFileTimes ==
    { <<255, 255, 166, 118, 13, 86, 80, 1>>,
      <<0, 0, 167, 118, 13, 86, 80, 1>>,
      <<0, 224, 94, 153, 168, 193, 82, 1>>,
      <<1, 192, 147, 46, 13, 194, 82, 1>>,
      <<128, 169, 43, 209, 167, 225, 83, 1>>,
      <<0, 64, 196, 209, 167, 225, 83, 1>>,
      <<255, 63, 109, 37, 235, 83, 191, 1>>,
      <<0, 128, 204, 235, 71, 130, 191, 1>>,
      <<132, 247, 74, 193, 25, 131, 191, 1>>,
      <<0, 216, 254, 219, 183, 159, 47, 2>>,
      <<0, 64, 195, 61, 192, 159, 47, 2>>,
      <<255, 191, 42, 240, 52, 144, 48, 2>>,
      <<0, 226, 163, 38, 0, 185, 212, 1>>,
      <<128, 47, 145, 202, 231, 254, 212, 1>>,
      <<0, 0, 3, 237, 159, 47, 213, 1>>,
      <<64, 54, 231, 144, 94, 223, 214, 1>>,
      <<0, 176, 4, 255, 255, 245, 127, 3>> }

CalendarInputs ==
    { MkHeader(GoodSize, GoodClsid, Zeros(4), Zeros(4), ct, Zeros(8), Zeros(8),
               Zeros(4), Zeros(4), Zeros(4), <<0, 0>>, Zeros(10)) : ct \in CalendarFileTimes }

\* 4-byte fields: each byte alone at 0x01, 0x80 and 0xFF, all bytes different,
\* the largest and the smallest i32, and all bits set
ByteQuadSamples ==
    { <<a, 0, 0, 0>> : a \in {1, 128, 255} }
    \cup { <<0, a, 0, 0>> : a \in {1, 128, 255} }
    \cup { <<0, 0, a, 0>> : a \in {1, 128, 255} }
    \cup { <<0, 0, 0, a>> : a \in {1, 127, 128, 255} }
    \cup { <<1, 2, 3, 4>>, <<4, 3, 2, 129>>, <<255, 255, 255, 127>>,
           <<255, 255, 255, 255>>, <<254, 255, 255, 255>> }

\* FileSize and IconIndex varied together
ReaderInputs ==
    { MkHeader(GoodSize, GoodClsid, Zeros(4), Zeros(4), Zeros(8), Zeros(8), Zeros(8),
               fs, ii, Zeros(4), <<0, 0>>, Zeros(10)) :
        fs \in ByteQuadSamples, ii \in ByteQuadSamples }

Inputs ==
    ShortInputs \cup FramingInputs \cup FlagInputs \cup FieldInputs \cup ExtremeInputs
    \cup HotKeyInputs \cup ExtraDataInputs \cup ReservedInputs \cup CalendarInputs
    \cup ReaderInputs

\* ------------------------------------------------------------------------
\* lib.rs: ShellLink::try_from, one action per statement
\* ------------------------------------------------------------------------

VARIABLES
    input,                \* the buffer being decoded
    pc,                   \* where ShellLink::try_from stands
    header,               \* None, or Some(result of ShellLinkHeader::try_from(input))
    link_target_id_list,  \* the local of that name: Option<LinkTargetIdList>
    calls,                \* the sub-decoders invoked so far: name, argument, return value
    result,               \* None, or Some(result of ShellLink::try_from(input))
    runs                  \* the earlier calls of ShellLink::try_from on this buffer:
                          \* the buffer at entry, the buffer at return, the result

vars == <<input, pc, header, link_target_id_list, calls, result, runs>>

Init ==
    /\ input \in Inputs
    /\ pc = "header"
    /\ header = None
    /\ link_target_id_list = None
    /\ calls = <<>>
    /\ result = None
    /\ runs = <<>>

\* a call that overwrites the buffer it decodes with zeros
DecodeHeader_clobbering ==
    /\ pc = "header"
    /\ LET r == ShellLinkHeader_try_from(input)
       IN  /\ header' = Some(r)
           /\ calls' = Append(calls, [fn |-> "ShellLinkHeader::try_from", arg |-> input, ret |-> r])
           /\ IF r.ok
              THEN pc' = "id_list" /\ result' = result
              ELSE pc' = "done" /\ result' = Some(Err(HeaderParseError(r.err)))
    /\ input' = [i \in 1..Len(input) |-> 0]
    /\ UNCHANGED <<link_target_id_list, runs>>

\* `let header = ShellLinkHeader::try_from(input)?;`
DecodeHeader ==
    /\ pc = "header"
    /\ LET r == ShellLinkHeader_try_from(input)
       IN  /\ header' = Some(r)
           /\ calls' = Append(calls, [fn |-> "ShellLinkHeader::try_from", arg |-> input, ret |-> r])
           /\ IF r.ok
              THEN pc' = "id_list" /\ result' = result
              ELSE pc' = "done" /\ result' = Some(Err(HeaderParseError(r.err)))
    /\ UNCHANGED <<input, link_target_id_list, runs>>

\* `if header.link_flags.contains(LinkFlags::HasLinkTargetIDList)
\*      { Some(LinkTargetIdList::try_from(&input[HEADER_LEN..])?) }`
DecodeIdList ==
    /\ pc = "id_list"
    /\ LinkFlags_contains(header[1].val.link_flags, "HasLinkTargetIDList")
    /\ LET arg == Slice(input, HEADER_LEN, Len(input))
           r   == LinkTargetIdList_try_from(arg)
       IN  /\ calls' = Append(calls, [fn |-> "LinkTargetIdList::try_from", arg |-> arg, ret |-> r])
           /\ IF r.ok
              THEN /\ link_target_id_list' = Some(r.val)
                   /\ pc' = "build"
                   /\ result' = result
              ELSE /\ link_target_id_list' = link_target_id_list
                   /\ pc' = "done"
                   /\ result' = Some(Err(IdListParseError(r.err)))
    /\ UNCHANGED <<input, header, runs>>

\* `else { None }`
SkipIdList ==
    /\ pc = "id_list"
    /\ ~LinkFlags_contains(header[1].val.link_flags, "HasLinkTargetIDList")
    /\ link_target_id_list' = None
    /\ pc' = "build"
    /\ UNCHANGED <<input, header, calls, result, runs>>

\* `Ok(Self { header, link_target_id_list, link_info: None, string_data: None,
\*            extra_data: None })`
Build ==
    /\ pc = "build"
    /\ result' = Some(Ok([header              |-> header[1].val,
                          link_target_id_list |-> link_target_id_list,
                          link_info           |-> None,
                          string_data         |-> None,
                          extra_data          |-> None]))
    /\ pc' = "done"
    /\ UNCHANGED <<input, header, link_target_id_list, calls, runs>>

\* the caller, holding `input: &[u8]`, calls ShellLink::try_from(input) again
\* after it has returned
DecodeAgain ==
    /\ pc = "done"
    /\ Len(runs) < MaxReruns
    /\ runs' = Append(runs, [entry |-> calls[1].arg, exit |-> input, result |-> result[1]])
    /\ pc' = "header"
    /\ header' = None
    /\ link_target_id_list' = None
    /\ calls' = <<>>
    /\ result' = None
    /\ UNCHANGED input

Next == DecodeHeader \/ DecodeIdList \/ SkipIdList \/ Build \/ DecodeAgain

Spec == Init /\ [][Next]_vars

\* ------------------------------------------------------------------------
\* shell_link_header.rs: is_year_leap_year, called on one year
\* ------------------------------------------------------------------------

LeapYearInit ==
    /\ input = <<>>
    /\ pc = "is_year_leap_year"
    /\ header = None
    /\ link_target_id_list = None
    /\ calls = <<>>
    /\ result = None
    /\ runs = <<>>

\* `is_year_leap_year(year)` for a year from START_YEAR_WINDOWS on
LeapYearCall ==
    /\ pc = "is_year_leap_year"
    /\ \E year \in START_YEAR_WINDOWS..MaxYear :
          calls' = <<[fn |-> "is_year_leap_year", arg |-> year, ret |-> is_year_leap_year(year)]>>
    /\ pc' = "done"
    /\ UNCHANGED <<input, header, link_target_id_list, result, runs>>

LeapYearNext == LeapYearCall

LeapYearSpec == LeapYearInit /\ [][LeapYearNext]_vars

\* ------------------------------------------------------------------------
\* The lookup tables, called on one variant or on one wire code
\* ------------------------------------------------------------------------

\* every u8 and every u16
U8Values == 0..255

U16Values == 0..(Limb - 1)

\* u32 codes: every table code, their neighbours, codes that differ from
\* a table code in one half only, and the extremes of both halves
U32Values ==
    {<<lo, hi>> : lo \in (0..255) \cup {32768, 65535},
                  hi \in (0..80) \cup {32768, 65535}}

TableInit ==
    /\ input = <<>>
    /\ pc = "table"
    /\ header = None
    /\ link_target_id_list = None
    /\ calls = <<>>
    /\ result = None
    /\ runs = <<>>

\* a call `first` of one function of a table, followed, when it returned
\* Some(x), by the call of the opposite function on x.  The `ret` of a From
\* impl is the Option that the impl unwraps: None is the panic of unwrap.
TableCalls(first_fn, arg, ret, second_fn, second_ret) ==
    /\ calls' = IF ret = None
                THEN <<[fn |-> first_fn, arg |-> arg, ret |-> ret]>>
                ELSE <<[fn |-> first_fn, arg |-> arg, ret |-> ret],
                       [fn |-> second_fn, arg |-> unwrap(ret), ret |-> second_ret]>>
    /\ pc' = "done"
    /\ UNCHANGED <<input, header, link_target_id_list, result, runs>>

\* impl From<HotKeyModifier> for u8 as an Option, like the other From impls:
\* its match is total, it is always Some
HotKeyModifier_code(v) == Some(u8_from_HotKeyModifier(v))

HotKeyInto ==
    /\ pc = "table"
    /\ \E v \in HotKey :
          LET code == u8_from_HotKey_find(v)
          IN  TableCalls("u8::from(HotKey)", v, code, "HotKey::try_from",
                         IF code = None THEN None ELSE HotKey_try_from(unwrap(code)))

HotKeyTryFrom ==
    /\ pc = "table"
    /\ \E w \in U8Values :
          LET variant == HotKey_try_from(w)
          IN  TableCalls("HotKey::try_from", w, variant, "u8::from(HotKey)",
                         IF variant = None THEN None ELSE u8_from_HotKey_find(unwrap(variant)))

HotKeyModifierInto ==
    /\ pc = "table"
    /\ \E v \in HotKeyModifier :
          LET code == HotKeyModifier_code(v)
          IN  TableCalls("u8::from(HotKeyModifier)", v, code, "HotKeyModifier::try_from",
                         IF code = None THEN None ELSE HotKeyModifier_try_from(unwrap(code)))

HotKeyModifierTryFrom ==
    /\ pc = "table"
    /\ \E w \in U8Values :
          LET variant == HotKeyModifier_try_from(w)
          IN  TableCalls("HotKeyModifier::try_from", w, variant, "u8::from(HotKeyModifier)",
                         IF variant = None THEN None ELSE HotKeyModifier_code(unwrap(variant)))

DriveTypeInto ==
    /\ pc = "table"
    /\ \E v \in DriveType :
          LET code == u32_from_DriveType_find(v)
          IN  TableCalls("u32::from(DriveType)", v, code, "DriveType::try_from",
                         IF code = None THEN None ELSE DriveType_try_from(unwrap(code)))

DriveTypeTryFrom ==
    /\ pc = "table"
    /\ \E w \in U32Values :
          LET variant == DriveType_try_from(w)
          IN  TableCalls("DriveType::try_from", w, variant, "u32::from(DriveType)",
                         IF variant = None THEN None ELSE u32_from_DriveType_find(unwrap(variant)))

NetworkProviderTypeInto ==
    /\ pc = "table"
    /\ \E v \in NetworkProviderType :
          LET code == u32_from_NetworkProviderType_find(v)
          IN  TableCalls("u32::from(NetworkProviderType)", v, code, "NetworkProviderType::try_from",
                         IF code = None THEN None ELSE NetworkProviderType_try_from(unwrap(code)))

NetworkProviderTypeTryFrom ==
    /\ pc = "table"
    /\ \E w \in U32Values :
          LET variant == NetworkProviderType_try_from(w)
          IN  TableCalls("NetworkProviderType::try_from", w, variant, "u32::from(NetworkProviderType)",
                         IF variant = None THEN None ELSE u32_from_NetworkProviderType_find(unwrap(variant)))

FontFamilyInto ==
    /\ pc = "table"
    /\ \E v \in FontFamily :
          LET code == u16_from_FontFamily_find(v)
          IN  TableCalls("u16::from(FontFamily)", v, code, "FontFamily::try_from",
                         IF code = None THEN None ELSE FontFamily_try_from(unwrap(code)))

FontFamilyTryFrom ==
    /\ pc = "table"
    /\ \E w \in U16Values :
          LET variant == FontFamily_try_from(w)
          IN  TableCalls("FontFamily::try_from", w, variant, "u16::from(FontFamily)",
                         IF variant = None THEN None ELSE u16_from_FontFamily_find(unwrap(variant)))

TableNext ==
    \/ HotKeyInto
    \/ HotKeyTryFrom
    \/ HotKeyModifierInto
    \/ HotKeyModifierTryFrom
    \/ DriveTypeInto
    \/ DriveTypeTryFrom
    \/ NetworkProviderTypeInto
    \/ NetworkProviderTypeTryFrom
    \/ FontFamilyInto
    \/ FontFamilyTryFrom

TableSpec == TableInit /\ [][TableNext]_vars

\* ------------------------------------------------------------------------
\* Properties
\* ------------------------------------------------------------------------

\* the value of a little-endian 32-bit field, read off the wire bytes b
WireU32(b) == <<b[1] + 256 * b[2], b[3] + 256 * b[4]>>

\* bit n (0 = least significant) of a little-endian 32-bit field with wire bytes b
WireBit(b, n) == (b[(n \div 8) + 1] \div Pow2(n % 8)) % 2

\* the header decoder has returned
HeaderDecoded == header # None

\* the buffer holds 76 bytes that start with HeaderSize = 0x4C and the CLSID
WellFramed ==
    /\ Len(input) >= 76
    /\ Slice(input, 0, 4) = GoodSize
    /\ Slice(input, 4, 20) = GoodClsid

LinkFlagsField == Slice(input, 20, 24)

FileAttributesField == Slice(input, 24, 28)

\* the bit positions of §6 that name a LinkFlags flag, and those that name none
KnownLinkFlagBits == {LINK_FLAGS[i][2] : i \in 1..Len(LINK_FLAGS)}

UnknownLinkFlagBits == {10, 16} \cup (27..31)

KnownFileAttributeBits == {FILE_ATTRIBUTES[i][2] : i \in 1..Len(FILE_ATTRIBUTES)}

UnknownFileAttributeBits == (0..31) \ KnownFileAttributeBits

\* the positions in `calls` of the invocations of the id-list decoder
IdListCalls == {i \in 1..Len(calls) : calls[i].fn = "LinkTargetIdList::try_from"}

\* C1: a buffer of n < 76 bytes makes ShellLinkHeader::try_from fail with
\* InvalidHeaderLength(n), whatever the bytes it holds (a wrong HeaderSize or
\* CLSID in the bytes that are there is not reported instead), and
\* ShellLink::try_from returns that error wrapped.
C1_ShortBufferIsLengthError ==
    (HeaderDecoded /\ Len(input) < 76) =>
        /\ ~header[1].ok
        /\ header[1].err.tag = "InvalidHeaderLength"
        /\ header[1].err.arg = Len(input)
        /\ result = Some(Err(HeaderParseError(InvalidHeaderLength(Len(input)))))

\* a 75-byte buffer whose HeaderSize bytes are wrong has been decoded
C1_Witness ==
    /\ HeaderDecoded
    /\ Len(input) = 75
    /\ Slice(input, 0, 4) = <<77, 0, 0, 0>>
    /\ header[1].err.tag = "InvalidHeaderLength"

\* C2: a buffer of at least 76 bytes whose HeaderSize field has a value v other
\* than 0x4C makes ShellLinkHeader::try_from fail with CorruptHeaderLength(v),
\* whatever the CLSID and the other fields are.
C2_WrongHeaderSizeIsReported ==
    (HeaderDecoded /\ Len(input) >= 76 /\ Slice(input, 0, 4) # GoodSize) =>
        /\ ~header[1].ok
        /\ header[1].err.tag = "CorruptHeaderLength"
        /\ header[1].err.arg = WireU32(Slice(input, 0, 4))

\* a header whose HeaderSize is 0x0001004C (low half right), with a good CLSID,
\* has been rejected
C2_Witness ==
    /\ HeaderDecoded
    /\ Len(input) >= 76
    /\ Slice(input, 0, 4) = <<76, 0, 1, 0>>
    /\ Slice(input, 4, 20) = GoodClsid
    /\ header[1].err.tag = "CorruptHeaderLength"
    /\ header[1].err.arg = <<76, 1>>

\* C3: with at least 76 bytes and HeaderSize = 0x4C, ShellLinkHeader::try_from
\* fails with CorruptHeaderClsId exactly when bytes 4..20 differ from
\* 01 14 02 00 00 00 00 00 C0 00 00 00 00 00 00 46.
C3_ClsIdErrorIffClsIdDiffers ==
    (HeaderDecoded /\ Len(input) >= 76 /\ Slice(input, 0, 4) = GoodSize) =>
        ((Slice(input, 4, 20) # GoodClsid)
            <=> (~header[1].ok /\ header[1].err.tag = "CorruptHeaderClsId"))

\* a header whose CLSID differs from the fixed one in its last byte only
\* (0x47 for 0x46) has been rejected with the CLSID error
C3_Witness ==
    /\ HeaderDecoded
    /\ Len(input) >= 76
    /\ Slice(input, 0, 4) = GoodSize
    /\ Slice(input, 4, 19) = SubSeq(GoodClsid, 1, 15)
    /\ input[20] = 71
    /\ header[1].err.tag = "CorruptHeaderClsId"

\* C4: a header with HeaderSize 0x4C, the CLSID, LinkFlags = 0,
\* FileAttributes = 0, three zero FILETIMEs, ShowCommand = 0 and hotkey bytes
\* (0,0) decodes: both flag sets empty, the three times absent, the hotkey
\* absent, show-command ShowNormal.
C4_AllZeroHeaderDecodes ==
    (/\ HeaderDecoded
     /\ WellFramed
     /\ Slice(input, 20, 52) = Zeros(32)
     /\ Slice(input, 60, 66) = Zeros(6)) =>
        /\ header[1].ok
        /\ Flags_is_empty(header[1].val.link_flags)
        /\ \A i \in 1..Len(LINK_FLAGS) :
              ~LinkFlags_contains(header[1].val.link_flags, LINK_FLAGS[i][1])
        /\ Flags_is_empty(header[1].val.file_attributes)
        /\ \A i \in 1..Len(FILE_ATTRIBUTES) :
              ~FileAttributes_contains(header[1].val.file_attributes, FILE_ATTRIBUTES[i][1])
        /\ header[1].val.creation_time = None
        /\ header[1].val.access_time = None
        /\ header[1].val.write_time = None
        /\ header[1].val.hot_key_flags = None
        /\ header[1].val.show_cmd = "ShowNormal"

\* the 76-byte header that is zero after the CLSID has been decoded and
\* ShellLink::try_from has returned it
C4_Witness ==
    /\ input = GoodSize \o GoodClsid \o Zeros(56)
    /\ pc = "done"
    /\ result # None
    /\ result[1].ok
    /\ result[1].val.header = header[1].val

\* C5: a well-framed header whose LinkFlags word has one of the bits 10, 16,
\* 27..31 set fails with InvalidLinkFlags carrying the raw word.
C5_UnknownLinkFlagBitRejected ==
    (/\ HeaderDecoded
     /\ WellFramed
     /\ \E n \in UnknownLinkFlagBits : WireBit(LinkFlagsField, n) = 1) =>
        /\ ~header[1].ok
        /\ header[1].err.tag = "InvalidLinkFlags"
        /\ header[1].err.arg = WireU32(LinkFlagsField)

\* C6: a well-framed header whose LinkFlags word has known bits only and whose
\* FileAttributes word has a bit set that names no FileAttributes flag fails
\* with InvalidFileAttributes carrying the raw word.
C6_UnknownFileAttributeBitRejected ==
    (/\ HeaderDecoded
     /\ WellFramed
     /\ \A n \in UnknownLinkFlagBits : WireBit(LinkFlagsField, n) = 0
     /\ \E n \in UnknownFileAttributeBits : WireBit(FileAttributesField, n) = 1) =>
        /\ ~header[1].ok
        /\ header[1].err.tag = "InvalidFileAttributes"
        /\ header[1].err.arg = WireU32(FileAttributesField)

\* C7: for every LinkFlags word the header decoder accepts and every flag F
\* listed at position n, the decoded set contains F iff bit n of the word is 1.
C7_FlagContainedIffItsBitSet ==
    (HeaderDecoded /\ header[1].ok) =>
        \A i \in 1..Len(LINK_FLAGS) :
            LinkFlags_contains(header[1].val.link_flags, LINK_FLAGS[i][1])
                <=> (WireBit(LinkFlagsField, LINK_FLAGS[i][2]) = 1)

\* C8: once the header is decoded, ShellLink::try_from invokes the id-list
\* decoder, on the bytes after the 76-byte header, exactly when bit 0 of the
\* LinkFlags word is set; with the bit clear the decoder is not invoked and the
\* result has no link_target_id_list.
C8_IdListDecodedIffBitZero ==
    (pc \in {"build", "done"} /\ HeaderDecoded /\ header[1].ok) =>
        /\ (IdListCalls # {}) <=> (WireBit(LinkFlagsField, 0) = 1)
        /\ \A i \in IdListCalls : i = 2 /\ calls[i].arg = Slice(input, 76, Len(input))
        /\ (WireBit(LinkFlagsField, 0) = 0 /\ result # None) =>
              (result[1].ok /\ result[1].val.link_target_id_list = None)

\* C9: LinkTargetIdList::try_from on one record of size 6 with a 4-byte payload
\* followed by a zero-size record (with or without the leading IDListSize)
\* succeeds and yields one ItemId holding that payload.
C9_OneItemIdListDecodes ==
    \A i \in IdListCalls :
        (\E p \in ItemSamples :
            Len(p) = 4 /\ calls[i].arg \in {IdListWire(<<p>>), ItemStream(<<p>>)})
        => /\ calls[i].ret.ok
           /\ Len(calls[i].ret.val.id_list.item_id_list) = 1
           /\ Len(calls[i].ret.val.id_list.item_id_list[1].data) = 4

\* C10: when ShellLink::try_from succeeds, link_info is present in the result
\* iff the decoded LinkFlags contain HasLinkInfo.
C10_LinkInfoIffHasLinkInfo ==
    (result # None /\ result[1].ok) =>
        ((result[1].val.link_info # None)
            <=> LinkFlags_contains(result[1].val.header.link_flags, "HasLinkInfo"))

\* C11: ShellLink::try_from is fail-fast. A header error e ends the decode with
\* HeaderParseError(e) and no later decoder is run; an id-list error e' ends it
\* with IdListParseError(e'); a failed decode carries an error and no ShellLink
\* value.
C11_FailFastUnchangedError ==
    /\ (HeaderDecoded /\ ~header[1].ok) =>
          /\ Len(calls) = 1
          /\ pc = "done"
          /\ result # None
          /\ ~result[1].ok
          /\ result[1].err.tag = "HeaderParseError"
          /\ result[1].err.arg = header[1].err
    /\ \A i \in IdListCalls :
          ~calls[i].ret.ok =>
              /\ i = Len(calls)
              /\ pc = "done"
              /\ result # None
              /\ ~result[1].ok
              /\ result[1].err.tag = "IdListParseError"
              /\ result[1].err.arg = calls[i].ret.err
    /\ (result # None /\ ~result[1].ok) =>
          /\ DOMAIN result[1] = {"ok", "err"}
          /\ link_target_id_list = None

\* the id-list decoder has failed after a header that decoded, and the decode
\* has returned
C11_Witness ==
    /\ HeaderDecoded
    /\ header[1].ok
    /\ IdListCalls # {}
    /\ result # None
    /\ ~result[1].ok
    /\ result[1].err.tag = "IdListParseError"

\* C12: for every buffer, ShellLinkHeader::try_from and ShellLink::try_from run
\* to their return without a panic: no slice or table index out of bounds, no
\* failed assertion, no overflowing addition or subtraction, both FILETIME
\* loops left; the decode is never stuck, and what it returns is an Ok value
\* or one of the typed errors.
C12_NoPanicOnAnyBuffer ==
    /\ HeaderDecoded => ~ShellLinkHeader_try_from_panics(input)
    /\ \A i \in IdListCalls : slice_in_bounds(input, HEADER_LEN, Len(input))
    /\ pc \in {"header", "id_list", "build", "done"}
    /\ pc \in {"id_list", "build"} => (HeaderDecoded /\ header[1].ok)
    /\ pc = "done" => result # None
    /\ (result # None /\ ~result[1].ok) =>
          /\ result[1].err.tag \in {"HeaderParseError", "IdListParseError"}
          /\ result[1].err.arg.tag \in
                {"InvalidHeaderLength", "CorruptHeaderLength", "CorruptHeaderClsId",
                 "InvalidLinkFlags", "InvalidFileAttributes", "InvalidHotKeyFlags",
                 "Unimplemented"}

\* a header whose creation time is the largest 64-bit tick count has been
\* decoded: the year loop ran to the year 60056
C12_Witness ==
    /\ HeaderDecoded
    /\ Len(input) >= 76
    /\ Slice(input, 28, 36) = [i \in 1..8 |-> 255]
    /\ header[1].ok
    /\ header[1].val.creation_time # None
    /\ header[1].val.creation_time[1].tm_year = 60056

ShowCommandField == Slice(input, 60, 64)

HotKeyField == Slice(input, 64, 66)

\* C13: ShowCommand 0x3 decodes to ShowMaximized, 0x7 to ShowMinNoActive, every
\* other 32-bit value to ShowNormal; whatever the ShowCommand, a header that is
\* well framed and has no hotkey decodes.
C13_ShowCommandDecoding ==
    /\ (HeaderDecoded /\ header[1].ok) =>
          header[1].val.show_cmd =
              (IF ShowCommandField = <<3, 0, 0, 0>> THEN "ShowMaximized"
               ELSE IF ShowCommandField = <<7, 0, 0, 0>> THEN "ShowMinNoActive"
               ELSE "ShowNormal")
    /\ (HeaderDecoded /\ WellFramed /\ HotKeyField = <<0, 0>>) => header[1].ok

\* ShowCommand 0x00010003 (low half 3) has been decoded to ShowNormal
C13_Witness ==
    /\ HeaderDecoded
    /\ Len(input) >= 76
    /\ ShowCommandField = <<3, 0, 1, 0>>
    /\ header[1].ok
    /\ header[1].val.show_cmd = "ShowNormal"

\* the key each wire code stands for: the digits 0x30..0x39, the letters
\* 0x41..0x5A, F1..F24 at 0x70..0x87, NumLock 0x90, ScrollLock 0x91
OwnKey(k) ==
    IF k \in 48..57
    THEN <<"Zero", "One", "Two", "Three", "Four", "Five", "Six", "Seven", "Eight", "Nine">>[k - 47]
    ELSE IF k \in 65..90
    THEN <<"A", "B", "C", "D", "E", "F", "G", "H", "I", "J", "K", "L", "M",
           "N", "O", "P", "Q", "R", "S", "T", "U", "V", "W", "X", "Y", "Z">>[k - 64]
    ELSE IF k \in 112..135
    THEN <<"F1", "F2", "F3", "F4", "F5", "F6", "F7", "F8", "F9", "F10", "F11", "F12",
           "F13", "F14", "F15", "F16", "F17", "F18", "F19", "F20", "F21", "F22", "F23",
           "F24">>[k - 111]
    ELSE IF k = 144 THEN "NumLock"
    ELSE "ScrollLock"

\* the wire codes of the hotkey table
KeyCodes == (48..57) \cup (65..90) \cup (112..135) \cup {144, 145}

\* the modifier each wire code stands for
OwnModifier(m) == IF m = 1 THEN "Shift" ELSE IF m = 2 THEN "Control" ELSE "Alt"

ModifierCodes == {1, 2, 4}

\* C14: HotKey bytes (0,0) decode to no hotkey; bytes (k, m) with k a key code
\* and m a modifier code decode to a hotkey with the key of k and the modifier
\* of m (0x41 is A, 0x32 is the key 2).
C14_HotKeyDecodesToOwnKey ==
    (HeaderDecoded /\ WellFramed) =>
        /\ HotKeyField = <<0, 0>> => (header[1].ok /\ header[1].val.hot_key_flags = None)
        /\ (HotKeyField[1] \in KeyCodes /\ HotKeyField[2] \in ModifierCodes) =>
              /\ header[1].ok
              /\ header[1].val.hot_key_flags # None
              /\ header[1].val.hot_key_flags[1].hot_key = OwnKey(HotKeyField[1])
              /\ header[1].val.hot_key_flags[1].modifier = OwnModifier(HotKeyField[2])

TimeFields ==
    { [bytes |-> Slice(input, 28, 36), tm |-> header[1].val.creation_time],
      [bytes |-> Slice(input, 36, 44), tm |-> header[1].val.access_time],
      [bytes |-> Slice(input, 44, 52), tm |-> header[1].val.write_time] }

\* the value of a little-endian 64-bit field, read off the wire bytes b
WireU64(b) == <<b[1] + 256 * b[2], b[3] + 256 * b[4], b[5] + 256 * b[6], b[7] + 256 * b[8]>>

\* the wire bytes of 116444736000000000
EpochFileTime == <<0, 128, 62, 213, 222, 177, 157, 1>>

\* the wire bytes of 109207 days of ticks, 94354848000000000
OffsetFileTime == <<0, 64, 224, 253, 59, 55, 79, 1>>

\* C16: the FILETIME 116444736000000000 decodes to 1970-01-01T00:00:00: year
\* 1970, month 1, day of month 1, hour, minute, second and sub-second 0.
C16_EpochDecodesToFirstOfJanuary1970 ==
    (HeaderDecoded /\ header[1].ok) =>
        \A f \in TimeFields :
            f.bytes = EpochFileTime =>
                /\ f.tm # None
                /\ f.tm[1].tm_year = 1970
                /\ f.tm[1].tm_mon = 1
                /\ f.tm[1].tm_mday = 1
                /\ f.tm[1].tm_hour = 0
                /\ f.tm[1].tm_min = 0
                /\ f.tm[1].tm_sec = 0
                /\ f.tm[1].tm_nsec = 0

\* C17: each header timestamp is absent iff its 8 bytes are all zero, and a
\* header that is well framed and has no hotkey decodes whatever its FILETIMEs.
C17_TimestampAbsentIffZero ==
    /\ (HeaderDecoded /\ header[1].ok) =>
          \A f \in TimeFields : (f.tm = None) <=> (f.bytes = Zeros(8))
    /\ (HeaderDecoded /\ WellFramed /\ HotKeyField = <<0, 0>>) => header[1].ok

\* a header whose creation time has a zero low half (2^32 ticks) and whose
\* other two times are zero has been decoded: creation present, the others
\* absent
C17_Witness ==
    /\ HeaderDecoded
    /\ Len(input) >= 76
    /\ Slice(input, 28, 36) = <<0, 0, 0, 0, 1, 0, 0, 0>>
    /\ Slice(input, 36, 52) = Zeros(16)
    /\ header[1].ok
    /\ header[1].val.creation_time # None
    /\ header[1].val.access_time = None
    /\ header[1].val.write_time = None

\* C18: a non-zero FILETIME below 109207 days of ticks decodes to what the
\* FILETIME of exactly 109207 days decodes to: the start of the year 1900, day
\* 0 of the year, time of day zero.
C18_SaturatesBelowOffset ==
    (HeaderDecoded /\ header[1].ok) =>
        \A f \in TimeFields :
            (f.bytes # Zeros(8) /\ Less(WireU64(f.bytes), WireU64(OffsetFileTime))) =>
                /\ f.tm # None
                /\ f.tm = parse_tm(OffsetFileTime)
                /\ f.tm[1].tm_year = 1900
                /\ f.tm[1].tm_yday = 0
                /\ f.tm[1].tm_hour = 0
                /\ f.tm[1].tm_min = 0
                /\ f.tm[1].tm_sec = 0
                /\ f.tm[1].tm_nsec = 0

\* the last tick before 1900-01-01 has been decoded, as an access time, to the
\* year 1900
C18_Witness ==
    /\ HeaderDecoded
    /\ Len(input) >= 76
    /\ Slice(input, 36, 44) = <<255, 63, 224, 253, 59, 55, 79, 1>>
    /\ header[1].ok
    /\ header[1].val.access_time # None
    /\ header[1].val.access_time[1].tm_year = 1900

\* the standard Gregorian rule: divisible by 4, and not by 100 unless by 400
GregorianLeapYear(year) == (year % 4) = 0 /\ ((year % 100) # 0 \/ (year % 400) = 0)

\* C19: for every year from 1601 up to the year of the largest 64-bit tick
\* count, is_year_leap_year answers as the Gregorian rule does.
C19_LeapYearIsGregorian ==
    \A i \in 1..Len(calls) :
        calls[i].fn = "is_year_leap_year" =>
            /\ calls[i].arg \in START_YEAR_WINDOWS..MaxYear
            /\ calls[i].ret = GregorianLeapYear(calls[i].arg)

\* is_year_leap_year has answered "no" for the century year 1900
C19_Witness ==
    /\ pc = "done"
    /\ calls # <<>>
    /\ calls[1].fn = "is_year_leap_year"
    /\ calls[1].arg = 1900
    /\ calls[1].ret = FALSE

C21_HotKeyTableIsBidirectional ==
    /\ \A i \in 1..Len(calls) :
           calls[i].fn = "u8::from(HotKey)" => calls[i].ret # None
    /\ (Len(calls) = 2 /\ calls[1].fn = "u8::from(HotKey)")
           => calls[2].ret = Some(calls[1].arg)
    /\ (Len(calls) = 2 /\ calls[1].fn = "HotKey::try_from")
           => \A i \in 1..Len(HOTKEY_MAP) :
                  HOTKEY_MAP[i][2] = calls[1].arg
                      => HOTKEY_MAP[i][1] = calls[1].ret[1]

\* the From impls and the try_from functions of the four tables of claim C22
BijectiveIntoFns ==
    {"u8::from(HotKeyModifier)", "u32::from(DriveType)",
     "u32::from(NetworkProviderType)", "u16::from(FontFamily)"}

BijectiveTryFromFns ==
    {"HotKeyModifier::try_from", "DriveType::try_from",
     "NetworkProviderType::try_from", "FontFamily::try_from"}

\* C22: the drive-type, network-provider, font-family and hotkey-modifier
\* tables are bijections: encoding a variant never fails and the code decodes
\* to the variant, and a wire value that decodes to a variant is the code that
\* variant encodes to.
C22_TablesAreBijections ==
    /\ (calls # <<>> /\ calls[1].fn \in BijectiveIntoFns)
           => /\ calls[1].ret # None
              /\ Len(calls) = 2
              /\ calls[2].ret = Some(calls[1].arg)
    /\ (Len(calls) = 2 /\ calls[1].fn \in BijectiveTryFromFns)
           => calls[2].ret = Some(calls[1].arg)

\* NetworkProviderType::Google has been encoded to 0x00430000 and decoded
\* back, and 0x0020 has been decoded to FontFamily::Swiss and encoded back
C22_Witness ==
    /\ Len(calls) = 2
    /\ \/ /\ calls[1].fn = "u32::from(NetworkProviderType)"
          /\ calls[1].arg = "Google"
          /\ calls[1].ret = Some(<<0, 67>>)
          /\ calls[2].ret = Some("Google")
       \/ /\ calls[1].fn = "FontFamily::try_from"
          /\ calls[1].arg = 32
          /\ calls[1].ret = Some("Swiss")
          /\ calls[2].ret = Some(32)


\* the drive types in the order of their wire values 0..6
DriveTypesInOrder ==
    <<"Unknown", "NoRootDir", "Removable", "Fixed", "Remote", "CdRom",
      "RamDisk">>

\* C23: DriveType::try_from accepts exactly the wire values 0..6, as Unknown,
\* NoRootDir, Removable, Fixed, Remote, CdRom, RamDisk in that order, and
\* answers None for every other 32-bit value.
C23_DriveTypeAcceptsZeroToSix ==
    (calls # <<>> /\ calls[1].fn = "DriveType::try_from")
        => calls[1].ret =
               IF calls[1].arg[2] = 0 /\ calls[1].arg[1] \in 0..6
               THEN Some(DriveTypesInOrder[calls[1].arg[1] + 1])
               ELSE None

\* DriveType::try_from has rejected 0x00010003, whose low half is the code of
\* Fixed
C23_Witness ==
    /\ calls # <<>>
    /\ calls[1].fn = "DriveType::try_from"
    /\ calls[1].arg = <<3, 1>>
    /\ calls[1].ret = None


\* C24: ShellLink::try_from always attempts extra-data decoding: a decode that
\* succeeds has called the extra-data decoder, and its result carries the
\* blocks found before the terminal block (none, when the section is the
\* terminal block alone) rather than no extra data.
C24_ExtraDataAlwaysAttempted ==
    (result # None /\ result[1].ok) =>
        /\ \E i \in 1..Len(calls) : calls[i].fn = "ExtraData::try_from"
        /\ result[1].val.extra_data # None


\* the buffer made of bytes 0..65 of `buf` and ten zero reserved bytes
ZeroReserved(buf) == Slice(buf, 0, 66) \o [i \in 1..10 |-> 0]

\* C25: ShellLinkHeader::try_from reads bytes 0..65 only: on a buffer of 76
\* bytes or more it returns what it returns on bytes 0..65 followed by ten zero
\* bytes, so any two buffers that agree on bytes 0..65 get equal results,
\* whatever their reserved bytes 66..75 and the bytes after offset 76 are.
C25_OnlyFirst66BytesRead ==
    (HeaderDecoded /\ Len(input) >= HEADER_LEN) =>
        LET r == ShellLinkHeader_try_from(ZeroReserved(input))
        IN  /\ header[1].ok = r.ok
            /\ r.ok => header[1].val = r.val
            /\ ~r.ok => /\ header[1].err.tag = r.err.tag
                        /\ header[1].err.arg = r.err.arg

\* a header with ten 0xFF reserved bytes and four 0xFF bytes after it has
\* decoded, with its time stamp, size, show command and hotkey
C25_Witness ==
    /\ HeaderDecoded
    /\ Len(input) = HEADER_LEN + 4
    /\ Slice(input, 66, 80) = [i \in 1..14 |-> 255]
    /\ header[1].ok
    /\ header[1].val.creation_time # None
    /\ header[1].val.hot_key_flags # None
    /\ header[1].val.show_cmd = "ShowMaximized"


\* the first rule, in the order length, HeaderSize, CLSID, LinkFlags,
\* FileAttributes, hotkey key, hotkey modifier, that the buffer violates
FirstViolatedRule ==
    IF Len(input) < 76 THEN "InvalidHeaderLength"
    ELSE IF Slice(input, 0, 4) # GoodSize THEN "CorruptHeaderLength"
    ELSE IF Slice(input, 4, 20) # GoodClsid THEN "CorruptHeaderClsId"
    ELSE IF \E n \in UnknownLinkFlagBits : WireBit(LinkFlagsField, n) = 1
    THEN "InvalidLinkFlags"
    ELSE IF \E n \in UnknownFileAttributeBits : WireBit(FileAttributesField, n) = 1
    THEN "InvalidFileAttributes"
    ELSE IF HotKeyField = <<0, 0>> THEN "none"
    ELSE IF HotKeyField[1] \notin KeyCodes THEN "InvalidHotKey"
    ELSE IF HotKeyField[2] \notin ModifierCodes THEN "InvalidHotKeyModifier"
    ELSE "none"

\* the rule the header decoder has reported
ReportedRule ==
    IF header[1].ok THEN "none"
    ELSE IF header[1].err.tag = "InvalidHotKeyFlags" THEN header[1].err.arg.tag
    ELSE header[1].err.tag

\* C26: the header decoder reports the first rule the buffer violates, in the
\* order buffer length, HeaderSize, CLSID, LinkFlags, FileAttributes, hotkey
\* key byte, hotkey modifier byte, and no error when none is violated.
C26_FirstViolatedRuleIsReported ==
    HeaderDecoded => ReportedRule = FirstViolatedRule


\* the day count of claim C27 for the FILETIME with wire bytes b: the whole
\* days in the ticks that are left after the 1900 offset is taken away, 0 when
\* the tick count is below the offset
DayCount(b) ==
    LET t      == WireU64(b)
        offset == WireU64(OffsetFileTime)
        perDay == Mul(U64(86400), U64(10000000))
    IN  IF Less(t, offset) THEN 0 ELSE ToNat(Div(Sub(t, offset), perDay))

\* the number of Gregorian leap years in 1..y
LeapYearsUpTo(y) == (y \div 4) - (y \div 100) + (y \div 400)

YearLength(y) == IF GregorianLeapYear(y) THEN 366 ELSE 365

\* the sum of the lengths of the years 1900..y-1
DaysBeforeYear(y) == 365 * (y - 1900) + LeapYearsUpTo(y - 1) - LeapYearsUpTo(1899)

\* the length of month m (1..12) of year y
MonthLength(m, y) ==
    IF m = 2 THEN (IF GregorianLeapYear(y) THEN 29 ELSE 28)
    ELSE IF m \in {4, 6, 9, 11} THEN 30 ELSE 31

\* the sum of the lengths of the months before month m of year y
RECURSIVE DaysBeforeMonth(_, _)
DaysBeforeMonth(m, y) ==
    IF m = 1 THEN 0 ELSE DaysBeforeMonth(m - 1, y) + MonthLength(m - 1, y)

\* C27: every non-zero FILETIME decodes to a calendar date consistent with
\* its day count d: the lengths of the years 1900..Y-1 and the day of year add
\* up to d, with the day of year below the length of Y; the lengths of the
\* months before M in Y and the day-of-month offset add up to the day of
\* year, with the offset below the length of M.
C27_CalendarConsistentWithDayCount ==
    (HeaderDecoded /\ header[1].ok) =>
        \A f \in TimeFields :
            (f.bytes # [i \in 1..8 |-> 0]) =>
                /\ f.tm # None
                /\ LET tm == f.tm[1]
                       d  == DayCount(f.bytes)
                   IN  /\ tm.tm_year >= 1900
                       /\ DaysBeforeYear(tm.tm_year) + tm.tm_yday = d
                       /\ 0 <= tm.tm_yday /\ tm.tm_yday < YearLength(tm.tm_year)
                       /\ tm.tm_mon \in 1..12
                       /\ DaysBeforeMonth(tm.tm_mon, tm.tm_year) + tm.tm_mday = tm.tm_yday
                       /\ 0 <= tm.tm_mday
                       /\ tm.tm_mday < MonthLength(tm.tm_mon, tm.tm_year)

\* the first of March of the century year 2100, which is no leap year, has
\* been decoded to day 59 of the year, month 3, offset 0
C27_Witness ==
    /\ HeaderDecoded
    /\ header[1].ok
    /\ Slice(input, 28, 36) = <<0, 64, 195, 61, 192, 159, 47, 2>>
    /\ header[1].val.creation_time # None
    /\ header[1].val.creation_time[1].tm_year = 2100
    /\ header[1].val.creation_time[1].tm_yday = 59
    /\ header[1].val.creation_time[1].tm_mon = 3
    /\ header[1].val.creation_time[1].tm_mday = 0


\* C28: every timestamp the FILETIME converter produces has year >= 1900,
\* month 1..12, hour 0..23, minute and second 0..59, day of year 0..365 and at
\* most 364 in a year that is no leap year, day of week = day of year mod 7,
\* UTC offset 0, and fields that are the values computed in 64 bits (none is
\* cut or turned negative by the conversion to 32 bits).
C28_TimestampFieldRanges ==
    (HeaderDecoded /\ header[1].ok) =>
        \A f \in TimeFields :
            f.tm # None =>
                LET tm == f.tm[1]
                IN  /\ tm.tm_year >= 1900 /\ tm.tm_year <= MaxYear
                    /\ tm.tm_mon >= 1 /\ tm.tm_mon <= 12
                    /\ tm.tm_hour \in 0..23
                    /\ tm.tm_min \in 0..59
                    /\ tm.tm_sec \in 0..59
                    /\ tm.tm_yday \in 0..365
                    /\ ~GregorianLeapYear(tm.tm_year) => tm.tm_yday <= 364
                    /\ tm.tm_wday = tm.tm_yday % 7
                    /\ tm.tm_wday \in 0..6
                    /\ tm.tm_utcoff = 0
                    /\ tm.tm_nsec >= 0 /\ tm.tm_nsec < 1000000000

\* the last tick of the leap year 2000 has been decoded from the write
\* time: day 365 of the year, month 12, 23:59:59
C28_Witness ==
    /\ HeaderDecoded
    /\ header[1].ok
    /\ header[1].val.write_time # None
    /\ header[1].val.write_time[1].tm_year = 2000
    /\ header[1].val.write_time[1].tm_yday = 365
    /\ header[1].val.write_time[1].tm_mon = 12
    /\ header[1].val.write_time[1].tm_hour = 23
    /\ header[1].val.write_time[1].tm_min = 59
    /\ header[1].val.write_time[1].tm_sec = 59
    /\ header[1].val.write_time[1].tm_wday = 1


\* C29: the nanosecond field of a timestamp decoded from a tick count t at or
\* after the 1900 offset is the sub-second part of the instant in nanoseconds,
\* (t mod 10^7) * 100, a value in [0, 10^9).
C29_NanosecondsAreSubSecondTimes100 ==
    (HeaderDecoded /\ header[1].ok) =>
        \A f \in TimeFields :
            (f.tm # None /\ ~Less(WireU64(f.bytes), WireU64(OffsetFileTime))) =>
                /\ f.tm[1].tm_nsec = ToNat(Rem(WireU64(f.bytes), U64(10000000))) * 100
                /\ f.tm[1].tm_nsec >= 0
                /\ f.tm[1].tm_nsec < 1000000000


FileSizeField == Slice(input, 52, 56)

IconIndexField == Slice(input, 56, 60)

\* the two's-complement value of the 32 bits with wire bytes b
WireI32(b) ==
    b[1] + 256 * b[2] + 65536 * b[3]
        + 16777216 * (IF b[4] >= 128 THEN b[4] - 256 ELSE b[4])

\* C30: the readers are exact little-endian decodes: FileSize in a decoded
\* header is b0 + 2^8 b1 + 2^16 b2 + 2^24 b3 of the bytes at offset 52,
\* IconIndex the two's-complement value of the bytes at offset 56, negative
\* exactly when b3 >= 0x80, and neither read overflows on the way.
C30_ReadersAreLittleEndian ==
    (HeaderDecoded /\ header[1].ok) =>
        /\ header[1].val.icon_index = WireI32(IconIndexField)
        /\ header[1].val.file_size = WireU32(FileSizeField)
        /\ (header[1].val.icon_index < 0) <=> (IconIndexField[4] >= 128)
        /\ ~u32_from_input_panics(FileSizeField)
        /\ ~i32_from_input_panics(IconIndexField)

\* FF FF FF FF at offset 56 has been decoded to IconIndex -1, next to a
\* FileSize 04 03 02 81 decoded to 0x81020304
C30_Witness ==
    /\ HeaderDecoded
    /\ header[1].ok
    /\ IconIndexField = <<255, 255, 255, 255>>
    /\ header[1].val.icon_index = -1
    /\ FileSizeField = <<4, 3, 2, 129>>
    /\ header[1].val.file_size = <<772, 33026>>


=============================================================================
